---- MODULE Spec2Model ----
(***************************************************************************)
(* MyCoinShelf offline data layer.                                         *)
(*                                                                         *)
(*   - OfflineDB (src/unnamed/part_005): the IndexedDB wrapper with the    *)
(*     object stores collection, wishlist, syncQueue, apiCache, profile.   *)
(*   - the service worker (src/PASSWORD_RESET_SETUP.md, lines 106-292):    *)
(*     install and activate, the two strategies with their caches, the     *)
(*     page message that writes the runtime cache, the sync event.         *)
(*   - Map3D (src/frontend/components/maps/Map3D.js): init and the globe   *)
(*     it constructs.                                                      *)
(*   - the Reconciler, the page code that drains the sync queue: not in    *)
(*     the sources, modelled from the design specification (section 4.4)   *)
(*     over the OfflineDB methods.                                         *)
(*                                                                         *)
(* Every OfflineDB method opens its own IndexedDB transaction, so every    *)
(* method is one atomic action here.  A service-worker handler suspends at *)
(* each await, so it is one action per await.                              *)
(***************************************************************************)
EXTENDS Integers, Sequences, FiniteSets, TLC

VARIABLES
    db,          \* this.db: "null" before init / after a restart, else "open"
    collection,  \* object store 'collection': set of records, key path id
    wishlist,    \* object store 'wishlist'
    syncQueue,   \* object store 'syncQueue': set of entries, key path id
    qkey,        \* key generator of 'syncQueue' (autoIncrement), durable
    apiCache,    \* object store 'apiCache', key path key
    profile,     \* object store 'profile', key path id
    confirmed,   \* ids of queue entries whose remote acceptance was confirmed
    enq,         \* history: number of successful enqueues so far
    last,        \* history: the last OfflineDB call and what it did
    left,        \* calls of OfflineDB and the remote API still to be made
    runtimeCache,\* Cache Storage 'coinshelf-runtime-v2': key -> response
    handlers,    \* service worker: network-first handlers in flight
    puts,        \* service worker: cache.put calls started and not yet settled
    lastNet,     \* history: key -> the latest response the network gave
    okSeen,      \* history: key -> the ok responses the network gave
    pageSeen,    \* history: key -> the payloads the page asked to cache
    lastResp,    \* history: the last response a handler delivered
    nev,         \* number of events (fetch events, page messages) so far
    worker,      \* service worker version -> its state in the registration
    skipFlag,    \* service worker version -> its skip waiting flag
    names,       \* Cache Storage: the names of the caches that exist
    staticCache, \* version -> the entries of its cache CACHE_NAME
    act,         \* version -> the progress of its activate handler
    controller,  \* page -> the version that controls it, 0 for none
    running,     \* strategy invocations in flight, of any version
    served,      \* history: the last response a strategy resolved to
    routed,      \* history: the last fetch event and the strategy chosen
    lastMsg,     \* history: the last page message and what the handler did
    lev,         \* number of page events (navigations, fetches, messages)
    mailbox,     \* page -> SYNC_PENDING_OPERATIONS messages not yet handled
    reconciler,  \* the drain state machine: Idle or Draining, and by whom
    inflight,    \* queue entries submitted to the remote API, not yet answered
    ntrig,       \* number of drain triggers so far
    schema,      \* the object stores the database holds (objectStoreNames)
    dbver,       \* the version of the stored database, 0 before it exists
    remote,      \* the remote API: entity -> what the server holds of it
    hist,        \* history: the page's mutations and their remote calls
    pass,        \* the drain pass: its state and what it has done so far
    tx,          \* the transaction of a clearAll call that has not finished
    map3d        \* a Map3D instance and the container element it draws in

dbVars == <<db, collection, wishlist, syncQueue, qkey, apiCache, profile,
            confirmed, enq, last, left>>
swVars == <<runtimeCache, handlers, puts, lastNet, okSeen, pageSeen, lastResp,
            nev>>
lcVars == <<worker, skipFlag, names, staticCache, act, controller, running,
            served, routed, lastMsg, lev>>
drVars == <<mailbox, reconciler, inflight, ntrig>>
exVars == <<schema, dbver, remote, hist, pass>>
pgVars == <<tx, map3d>>
vars == <<dbVars, swVars, lcVars, drVars, exVars, pgVars>>

-----------------------------------------------------------------------------
(* Bounds of the model *)

\* OfflineDB calls explored per behaviour: of the whole class, of the record
\* stores alone, of the sync queue alone
MaxOps == 2
MaxStoreOps == 3
MaxQueueOps == 3
\* events (fetch events, page messages) the service worker receives per
\* behaviour
MaxEvents == 3
\* Date.now() returns a value of 0..MaxClock, in any order
MaxClock == 1
\* page events (navigations, fetches, messages) explored per behaviour
MaxLifeEvents == 2
\* drain triggers (sync events, reconnects) explored per behaviour
MaxTriggers == 2
\* enqueues explored per behaviour of the drain
MaxDrainOps == 1
\* mutations of the page explored per behaviour of the Reconciler
MaxMutations == 2
\* kills of the page process explored per behaviour
MaxCrashes == 1

Clock == 0..MaxClock
\* Math.random().toString(36).substr(2, 9)
Rand == {"a"}

-----------------------------------------------------------------------------
(* Record ids.  An id is undefined, a server-assigned number, or the string *)
(* `offline_${t}_${r}`.                                                    *)

None == [k |-> "undefined", t |-> 0, r |-> "-"]
Srv(n) == [k |-> "number", t |-> n, r |-> "-"]
Off(t, r) == [k |-> "offline_", t |-> t, r |-> r]

\* ids the server has assigned
ServerIds == {Srv(1)}
OfflineIds == {Off(t, r) : t \in Clock, r \in Rand}

\* !id
Falsy(id) == id = None
\* id.toString().startsWith('offline_')
StartsWithOffline(id) == id.k = "offline_"

\* the items a caller hands to saveCollectionItem / saveWishlistItem
Items == [id : {None} \cup ServerIds \cup OfflineIds,
          offlineId : {None} \cup OfflineIds,
          synced : BOOLEAN]

-----------------------------------------------------------------------------
(* IndexedDB object stores 'collection' and 'wishlist':                    *)
(* keyPath id, unique index on offlineId.                                  *)

\* variant: the index offlineId is not unique
IndexConflict_NotUnique(store, rec) == FALSE

\* the unique index offlineId rejects a record whose offlineId is held by a
\* record under another key; a record without offlineId is not indexed
IndexConflict(store, rec) ==
    /\ rec.offlineId # None
    /\ \E x \in store : x.id # rec.id /\ x.offlineId = rec.offlineId

\* store.put(rec): upsert by key, or ConstraintError and the transaction aborts
StorePut(store, rec) ==
    IF IndexConflict(store, rec)
    THEN store
    ELSE {x \in store : x.id # rec.id} \cup {rec}

\* variant: the delete is lost
StoreDelete_Lost(store, id) == store

\* store.delete(id)
StoreDelete(store, id) == {x \in store : x.id # id}

\* variant: a new item keeps the synced flag it came with
NewItem_KeepsSynced(item, t, r) ==
    IF Falsy(item.id) \/ StartsWithOffline(item.id)
    THEN LET oid == IF item.offlineId # None THEN item.offlineId ELSE Off(t, r)
         IN [id |-> oid, offlineId |-> oid, synced |-> item.synced]
    ELSE item

\* variant: a new item always gets a generated offlineId
NewItem_AlwaysGenerates(item, t, r) ==
    IF Falsy(item.id) \/ StartsWithOffline(item.id)
    THEN [id |-> Off(t, r), offlineId |-> Off(t, r), synced |-> FALSE]
    ELSE item

\* lines 71-75 / 97-101: the item as it is handed to store.put
NewItem(item, t, r) ==
    IF Falsy(item.id) \/ StartsWithOffline(item.id)
    THEN LET oid == IF item.offlineId # None THEN item.offlineId ELSE Off(t, r)
         IN [id |-> oid, offlineId |-> oid, synced |-> FALSE]
    ELSE item

NoItem == [id |-> None, offlineId |-> None, synced |-> FALSE]
\* history of a call: the method, the item it was given, the record handed to
\* store.put, whether a record with that offlineId was stored before the call,
\* the queue key used, and the result of the store request
Call(op, item, rec, had, key, result) ==
    [op |-> op, item |-> item, rec |-> rec, had |-> had, key |-> key,
     result |-> result]
NoOp == Call("none", NoItem, NoItem, FALSE, 0, "none")

\* a record with the offlineId of rec is in the store
HasLocalId(store, rec) ==
    rec.offlineId # None /\ \E x \in store : x.offlineId = rec.offlineId

-----------------------------------------------------------------------------
(* Object store 'syncQueue': keyPath id, autoIncrement.                    *)

QTypes == {"create", "update", "delete"}
\* what a queue entry targets: a record id
Targets == ServerIds \cup {Off(0, "a")}
\* the operation a caller hands to addToSyncQueue; id 0 stands for "no id
\* field", status is a field the caller may have set
Operations == [type : QTypes, target : Targets, id : {0, 1, 2},
               status : {"pending", "failed"}]

\* lines 123-128: { ...operation, timestamp: Date.now(), attempts: 0,
\* status: 'pending' }; ord and auto are history: the ordinal of the enqueue,
\* and whether the operation left the id to the key generator
QueueItem(operation, t, n) ==
    [id |-> operation.id, type |-> operation.type, target |-> operation.target,
     timestamp |-> t, attempts |-> 0, status |-> "pending", ord |-> n,
     auto |-> operation.id = 0]

\* the key store.add gives a value: its id if it has one, else the next
\* number of the key generator
AddKey(item, gen) == IF item.id # 0 THEN item.id ELSE gen

\* the key generator after an add under key k
NextKey(gen, k) == IF k >= gen THEN k + 1 ELSE gen

\* store.add(item) fails with ConstraintError when the key is taken
KeyTaken(store, k) == \E e \in store : e.id = k

\* variant: store.put in place of store.add, a taken key is overwritten
StoreAdd_AsPut(store, item, gen) ==
    {e \in store : e.id # AddKey(item, gen)}
        \cup {[item EXCEPT !.id = AddKey(item, gen)]}

\* store.add(item)
StoreAdd(store, item, gen) ==
    IF KeyTaken(store, AddKey(item, gen))
    THEN store
    ELSE store \cup {[item EXCEPT !.id = AddKey(item, gen)]}

\* variant: the values in the order of the index timestamp
RECURSIVE GetAll_ByTimestamp(_)
GetAll_ByTimestamp(store) ==
    IF store = {} THEN <<>>
    ELSE LET first == CHOOSE e \in store : \A f \in store :
                          \/ e.timestamp < f.timestamp
                          \/ e.timestamp = f.timestamp /\ e.id <= f.id
         IN <<first>> \o GetAll_ByTimestamp(store \ {first})

\* store.getAll(): the values in ascending key order
RECURSIVE GetAll(_)
GetAll(store) ==
    IF store = {} THEN <<>>
    ELSE LET first == CHOOSE e \in store : \A f \in store : e.id <= f.id
         IN <<first>> \o GetAll(store \ {first})

-----------------------------------------------------------------------------
(* The schema of the database: indexedDB.open and onupgradeneeded           *)

\* lines 29-57 and 187: the five object stores
StoreNames == {"collection", "wishlist", "syncQueue", "apiCache", "profile"}

\* an object store of the database: whether it exists, and its records
Store(exists, records) == [exists |-> exists, records |-> records]

\* the stored database, as the upgrade handler finds it
Database ==
    [name \in StoreNames |->
        Store(name \in schema,
              CASE name = "collection" -> collection
                [] name = "wishlist" -> wishlist
                [] name = "syncQueue" -> syncQueue
                [] name = "apiCache" -> apiCache
                [] name = "profile" -> profile)]

\* variant: every store is created anew, the contains guard left out
Upgrade_Unguarded(d) == [name \in StoreNames |-> Store(TRUE, {})]

\* lines 25-61: onupgradeneeded: each of the five stores is created, empty,
\* if (!db.objectStoreNames.contains(name))
Upgrade(d) ==
    [name \in StoreNames |->
        IF ~d[name].exists THEN Store(TRUE, {}) ELSE d[name]]

\* line 12: indexedDB.open(this.dbName, this.dbVersion) with this.dbVersion
\* = 1 (line 5): the upgrade runs when the stored version is lower, 0 for a
\* database that does not exist yet
UpgradeNeeded(stored) == stored < 1

\* the database a successful open hands to onsuccess
Opened(d, stored) == IF UpgradeNeeded(stored) THEN Upgrade(d) ELSE d

-----------------------------------------------------------------------------
(* OfflineDB *)

InitDB ==
    /\ db = "null"
    /\ schema = {}
    /\ dbver = 0
    /\ collection = {}
    /\ wishlist = {}
    /\ syncQueue = {}
    /\ qkey = 1
    /\ apiCache = {}
    /\ profile = {}
    /\ confirmed = {}
    /\ enq = 0
    /\ last = NoOp

\* this.db.transaction(...) on a null db throws TypeError: the async method
\* returns a rejected promise and no store changes
Rejected(op) ==
    /\ db = "null"
    /\ last' = Call(op, NoItem, NoItem, FALSE, 0, "TypeError")
    /\ UNCHANGED <<db, collection, wishlist, syncQueue, qkey, apiCache,
                   profile, confirmed, enq>>

\* the result of a store.put / store.add request
Outcome(failed) == IF failed THEN "ConstraintError" ELSE "stored"

\* what the caller of a method sees.  A method that reads this.db while it
\* is null throws, so its promise rejects with the TypeError; init rejects
\* with request.error (line 16); every other method returns the IDBRequest
\* (or transaction.complete) it has just made, so its promise resolves before
\* the request succeeds or fails
Reported(call) ==
    IF call.result = "TypeError" THEN "rejected with TypeError"
    ELSE IF call.op = "init" /\ call.result = "rejected"
    THEN "rejected with DOMException"
    ELSE "resolved"

\* the error kinds of the taxonomy
ErrorKinds ==
    {"StorageUnavailable", "TransientNetworkFailure", "PermanentRejection",
     "OrderingDeferral"}

init ==
    /\ db = "null"
    /\ \E ok \in BOOLEAN :
        LET d == IF ok THEN Opened(Database, dbver) ELSE Database IN
        /\ db' = IF ok THEN "open" ELSE "null"
        /\ schema' = {name \in StoreNames : d[name].exists}
        /\ dbver' = IF ok /\ UpgradeNeeded(dbver) THEN 1 ELSE dbver
        /\ collection' = d["collection"].records
        /\ wishlist' = d["wishlist"].records
        /\ syncQueue' = d["syncQueue"].records
        /\ apiCache' = d["apiCache"].records
        /\ profile' = d["profile"].records
        /\ last' = Call("init", NoItem, NoItem,
                        UpgradeNeeded(dbver) /\ schema \notin {{}, StoreNames},
                        0, IF ok THEN "resolved" ELSE "rejected")
    /\ UNCHANGED <<qkey, confirmed, enq, left>>
    /\ UNCHANGED <<swVars, lcVars, drVars>>
    /\ UNCHANGED <<remote, hist, pass, pgVars>>

\* the page is closed or crashes: the next page constructs a new OfflineDB,
\* the stores are durable
Restart ==
    /\ db = "open"
    /\ db' = "null"
    /\ last' = Call("constructor", NoItem, NoItem, FALSE, 0, "none")
    /\ UNCHANGED <<collection, wishlist, syncQueue, qkey, apiCache, profile,
                   confirmed, enq, left>>
    /\ UNCHANGED <<swVars, lcVars, drVars, exVars, pgVars>>

saveCollectionItem ==
    /\ left > 0
    /\ left' = left - 1
    /\ \/ Rejected("saveCollectionItem")
       \/ /\ db = "open"
          /\ \E item \in Items, t \in Clock, r \in Rand :
               LET rec == NewItem(item, t, r) IN
               /\ collection' = StorePut(collection, rec)
               /\ last' = Call("saveCollectionItem", item, rec,
                               HasLocalId(collection, rec), 0,
                               Outcome(IndexConflict(collection, rec)))
          /\ UNCHANGED <<db, wishlist, syncQueue, qkey, apiCache, profile,
                         confirmed, enq>>
    /\ UNCHANGED <<swVars, lcVars, drVars, exVars, pgVars>>

deleteCollectionItem ==
    /\ left > 0
    /\ left' = left - 1
    /\ \/ Rejected("deleteCollectionItem")
       \/ /\ db = "open"
          /\ \E id \in ServerIds \cup OfflineIds :
               /\ collection' = StoreDelete(collection, id)
               /\ last' = Call("deleteCollectionItem",
                               [NoItem EXCEPT !.id = id], NoItem, FALSE, 0,
                               "deleted")
          /\ UNCHANGED <<db, wishlist, syncQueue, qkey, apiCache, profile,
                         confirmed, enq>>
    /\ UNCHANGED <<swVars, lcVars, drVars, exVars, pgVars>>

saveWishlistItem ==
    /\ left > 0
    /\ left' = left - 1
    /\ \/ Rejected("saveWishlistItem")
       \/ /\ db = "open"
          /\ \E item \in Items, t \in Clock, r \in Rand :
               LET rec == NewItem(item, t, r) IN
               /\ wishlist' = StorePut(wishlist, rec)
               /\ last' = Call("saveWishlistItem", item, rec,
                               HasLocalId(wishlist, rec), 0,
                               Outcome(IndexConflict(wishlist, rec)))
          /\ UNCHANGED <<db, collection, syncQueue, qkey, apiCache, profile,
                         confirmed, enq>>
    /\ UNCHANGED <<swVars, lcVars, drVars, exVars, pgVars>>

deleteWishlistItem ==
    /\ left > 0
    /\ left' = left - 1
    /\ \/ Rejected("deleteWishlistItem")
       \/ /\ db = "open"
          /\ \E id \in ServerIds \cup OfflineIds :
               /\ wishlist' = StoreDelete(wishlist, id)
               /\ last' = Call("deleteWishlistItem",
                               [NoItem EXCEPT !.id = id], NoItem, FALSE, 0,
                               "deleted")
          /\ UNCHANGED <<db, collection, syncQueue, qkey, apiCache, profile,
                         confirmed, enq>>
    /\ UNCHANGED <<swVars, lcVars, drVars, exVars, pgVars>>

addToSyncQueue ==
    /\ left > 0
    /\ left' = left - 1
    /\ \/ Rejected("addToSyncQueue")
       \/ /\ db = "open"
          /\ \E operation \in Operations, t \in Clock :
               LET queueItem == QueueItem(operation, t, enq + 1)
                   k == AddKey(queueItem, qkey)
                   taken == KeyTaken(syncQueue, k)
               IN
               /\ syncQueue' = StoreAdd(syncQueue, queueItem, qkey)
               /\ qkey' = IF taken THEN qkey ELSE NextKey(qkey, k)
               /\ enq' = IF taken THEN enq ELSE enq + 1
               /\ last' = Call("addToSyncQueue", NoItem, NoItem, FALSE, k,
                               Outcome(taken))
          /\ UNCHANGED <<db, collection, wishlist, apiCache, profile,
                         confirmed>>
    /\ UNCHANGED <<swVars, lcVars, drVars, exVars, pgVars>>

removeFromSyncQueue ==
    /\ left > 0
    /\ left' = left - 1
    /\ \/ Rejected("removeFromSyncQueue")
       \/ /\ db = "open"
          /\ \E id \in {e.id : e \in syncQueue} \cup {qkey} :
               /\ syncQueue' = {e \in syncQueue : e.id # id}
               /\ last' = Call("removeFromSyncQueue", NoItem, NoItem, FALSE, id,
                               "deleted")
          /\ UNCHANGED <<db, collection, wishlist, qkey, apiCache, profile,
                         confirmed, enq>>
    /\ UNCHANGED <<swVars, lcVars, drVars, exVars, pgVars>>

clearSyncQueue ==
    /\ left > 0
    /\ left' = left - 1
    /\ \/ Rejected("clearSyncQueue")
       \/ /\ db = "open"
          /\ syncQueue' = {}
          /\ last' = Call("clearSyncQueue", NoItem, NoItem, FALSE, 0, "cleared")
          /\ UNCHANGED <<db, collection, wishlist, qkey, apiCache, profile,
                         confirmed, enq>>
    /\ UNCHANGED <<swVars, lcVars, drVars, exVars, pgVars>>

\* the keys and payloads a page caches
ApiKeys == {"/api/collection"}

cacheAPIResponse ==
    /\ left > 0
    /\ left' = left - 1
    /\ \/ Rejected("cacheAPIResponse")
       \/ /\ db = "open"
          /\ \E key \in ApiKeys, t \in Clock :
               /\ apiCache' = {c \in apiCache : c.key # key}
                                \cup {[key |-> key, timestamp |-> t]}
               /\ last' = Call("cacheAPIResponse", NoItem, NoItem, FALSE, 0, "stored")
          /\ UNCHANGED <<db, collection, wishlist, syncQueue, qkey, profile,
                         confirmed, enq>>
    /\ UNCHANGED <<swVars, lcVars, drVars, exVars, pgVars>>

saveProfile ==
    /\ left > 0
    /\ left' = left - 1
    /\ \/ Rejected("saveProfile")
       \/ /\ db = "open"
          /\ profile' = {[id |-> "current"]}
          /\ last' = Call("saveProfile", NoItem, NoItem, FALSE, 0, "stored")
          /\ UNCHANGED <<db, collection, wishlist, syncQueue, qkey, apiCache,
                         confirmed, enq>>
    /\ UNCHANGED <<swVars, lcVars, drVars, exVars, pgVars>>

\* one transaction over the five stores
clearAll ==
    /\ left > 0
    /\ left' = left - 1
    /\ \/ Rejected("clearAll")
       \/ /\ db = "open"
          /\ collection' = {}
          /\ wishlist' = {}
          /\ syncQueue' = {}
          /\ apiCache' = {}
          /\ profile' = {}
          /\ last' = Call("clearAll", NoItem, NoItem, FALSE, 0, "cleared")
          /\ UNCHANGED <<db, qkey, confirmed, enq>>
    /\ UNCHANGED <<swVars, lcVars, drVars, exVars, pgVars>>

\* the remote API accepts the mutation of a queue entry and the Reconciler
\* learns of it
RemoteConfirm ==
    /\ left > 0
    /\ left' = left - 1
    /\ \E e \in syncQueue :
         /\ e.ord \notin confirmed
         /\ confirmed' = confirmed \cup {e.ord}
    /\ UNCHANGED <<db, collection, wishlist, syncQueue, qkey, apiCache,
                   profile, enq, last>>
    /\ UNCHANGED <<swVars, lcVars, drVars, exVars, pgVars>>

\* the record stores: collection and wishlist
NextStore ==
    \/ init
    \/ saveCollectionItem
    \/ deleteCollectionItem
    \/ saveWishlistItem
    \/ deleteWishlistItem
    \/ clearAll

\* the sync queue
NextQueue ==
    \/ init
    \/ addToSyncQueue
    \/ removeFromSyncQueue
    \/ clearSyncQueue
    \/ clearAll

\* every method of OfflineDB
NextDB ==
    \/ init
    \/ Restart
    \/ saveCollectionItem
    \/ deleteCollectionItem
    \/ saveWishlistItem
    \/ deleteWishlistItem
    \/ addToSyncQueue
    \/ removeFromSyncQueue
    \/ clearSyncQueue
    \/ cacheAPIResponse
    \/ saveProfile
    \/ clearAll
    \/ RemoteConfirm

-----------------------------------------------------------------------------
(* Service worker: networkFirstStrategy, the runtime cache, page messages  *)

\* GET requests the fetch handler routes to networkFirstStrategy: two API
\* paths and the page shell; the request is the cache key
RequestKeys == {"/api/collection", "/api/prices", "/index.html"}

\* a Response: its status, whether its body carries offline: true, its body
Response(status, offline, body) ==
    [status |-> status, offline |-> offline, body |-> body]
\* no Response: cache.match found nothing (undefined)
NoResponse == Response(0, FALSE, 0)
\* lines 245-252
OfflineResponse == Response(503, TRUE, 0)
\* response.ok
Ok(resp) == resp.status >= 200 /\ resp.status <= 299

\* what the network answers to the fetch of request n when it answers at all:
\* a body of its own with a successful or an unsuccessful status
NetworkResponses(n) == {Response(200, FALSE, n), Response(503, FALSE, n)}
\* the `response` of a CACHE_API_RESPONSE message, stored with the default
\* status of new Response(...)
PagePayloads == {Response(200, FALSE, 100), Response(200, TRUE, 101)}

\* variant: the lookup ignores the request and returns any entry of the cache
Match_AnyKey(cache, key) ==
    IF \E k \in DOMAIN cache : cache[k] # NoResponse
    THEN cache[CHOOSE k \in DOMAIN cache : cache[k] # NoResponse]
    ELSE NoResponse

\* cache.match(request)
Match(cache, key) == cache[key]
\* variant: a put writes the response under every key of the cache
Put_EveryKey(cache, key, resp) == [k \in DOMAIN cache |-> resp]

\* cache.put(request, response), once it has completed
Put(cache, key, resp) == [cache EXCEPT ![key] = resp]

\* variant: a response that is not ok is cached too
StartedPuts_AnyStatus(key, resp) == {[key |-> key, resp |-> resp]}

\* lines 227-230: the cache.put calls a network response starts
StartedPuts(key, resp) ==
    IF Ok(resp) THEN {[key |-> key, resp |-> resp]} ELSE {}

\* variant: the message is stored under every key
MessagePuts_EveryKey(key, resp) ==
    {[key |-> k, resp |-> resp] : k \in RequestKeys}

\* lines 286-289: the cache.put a CACHE_API_RESPONSE message starts
MessagePuts(key, resp) == {[key |-> key, resp |-> resp]}

\* variant: the catch branch looks the request up in the static cache of the
\* active version
FallbackCache_Static ==
    [k \in RequestKeys |->
       IF \E g \in DOMAIN staticCache :
             /\ worker[g] = "activated"
             /\ [origin |-> "self", pathname |-> k] \in DOMAIN staticCache[g]
       THEN staticCache[CHOOSE g \in DOMAIN staticCache :
                           worker[g] = "activated"]
                       [[origin |-> "self", pathname |-> k]]
       ELSE [status |-> 0, offline |-> FALSE, body |-> 0]]

\* line 237: caches.open(RUNTIME_CACHE), the cache the catch branch reads
FallbackCache == runtimeCache

\* variant: the catch branch answers offline without looking at the cache
Fallback_AlwaysOffline(cachedResponse) == OfflineResponse

\* lines 240-252: the response of the catch branch
Fallback(cachedResponse) ==
    IF cachedResponse # NoResponse THEN cachedResponse ELSE OfflineResponse

\* history of a delivered response: the request key, the response, the branch
\* that produced it, and as they were at that moment: the runtime cache entry
\* of the key, the latest response of the network for the key, whether the
\* network had given an ok response for the key
Delivery(key, resp, via, cached, latest, fetched) ==
    [key |-> key, resp |-> resp, via |-> via, cached |-> cached,
     latest |-> latest, fetched |-> fetched]
NoDelivery == Delivery("", NoResponse, "none", NoResponse, NoResponse, FALSE)

InitSW ==
    /\ runtimeCache = [k \in RequestKeys |-> NoResponse]
    /\ handlers = {}
    /\ puts = {}
    /\ lastNet = [k \in RequestKeys |-> NoResponse]
    /\ okSeen = [k \in RequestKeys |-> {}]
    /\ pageSeen = [k \in RequestKeys |-> {}]
    /\ lastResp = NoDelivery
    /\ nev = 0

\* fetch event, line 175: respondWith(networkFirstStrategy(request)); the
\* handler runs up to `await fetch(request)`
FetchEvent ==
    /\ nev < MaxEvents
    /\ nev' = nev + 1
    /\ \E key \in RequestKeys :
         handlers' = handlers \cup {[id |-> nev + 1, key |-> key, pc |-> "fetch"]}
    /\ UNCHANGED <<runtimeCache, puts, lastNet, okSeen, pageSeen, lastResp>>
    /\ UNCHANGED <<dbVars, lcVars, drVars, exVars, pgVars>>

\* lines 224-232: fetch resolves; an ok response starts a cache.put that is
\* not awaited, and the network response is returned
FetchResolves ==
    /\ \E h \in handlers : \E resp \in NetworkResponses(h.id) :
         /\ h.pc = "fetch"
         /\ handlers' = handlers \ {h}
         /\ puts' = puts \cup StartedPuts(h.key, resp)
         /\ lastNet' = [lastNet EXCEPT ![h.key] = resp]
         /\ okSeen' = [okSeen EXCEPT ![h.key] =
                          IF Ok(resp) THEN @ \cup {resp} ELSE @]
         /\ lastResp' = Delivery(h.key, resp, "network", runtimeCache[h.key],
                                  resp, okSeen'[h.key] # {})
    /\ UNCHANGED <<runtimeCache, pageSeen, nev>>
    /\ UNCHANGED <<dbVars, lcVars, drVars, exVars, pgVars>>

\* line 233: fetch rejects, the handler enters the catch branch
FetchRejects ==
    /\ \E h \in handlers :
         /\ h.pc = "fetch"
         /\ handlers' = (handlers \ {h}) \cup {[h EXCEPT !.pc = "catch"]}
    /\ UNCHANGED <<runtimeCache, puts, lastNet, okSeen, pageSeen, lastResp,
                   nev>>
    /\ UNCHANGED <<dbVars, lcVars, drVars, exVars, pgVars>>

\* lines 236-252: the cache lookup of the catch branch and its response
CatchBranch ==
    /\ \E h \in handlers :
         /\ h.pc = "catch"
         /\ handlers' = handlers \ {h}
         /\ lastResp' = Delivery(h.key, Fallback(Match(FallbackCache, h.key)),
                                  "catch", runtimeCache[h.key],
                                  lastNet[h.key], okSeen[h.key] # {})
    /\ UNCHANGED <<runtimeCache, puts, lastNet, okSeen, pageSeen, nev>>
    /\ UNCHANGED <<dbVars, lcVars, drVars, exVars, pgVars>>

\* a started cache.put completes
PutCompletes ==
    /\ \E p \in puts :
         /\ puts' = puts \ {p}
         /\ runtimeCache' = Put(runtimeCache, p.key, p.resp)
    /\ UNCHANGED <<handlers, lastNet, okSeen, pageSeen, lastResp, nev>>
    /\ UNCHANGED <<dbVars, lcVars, drVars, exVars, pgVars>>

\* a started cache.put rejects (quota); nothing awaits it
PutRejects ==
    /\ \E p \in puts : puts' = puts \ {p}
    /\ UNCHANGED <<runtimeCache, handlers, lastNet, okSeen, pageSeen, lastResp,
                   nev>>
    /\ UNCHANGED <<dbVars, lcVars, drVars, exVars, pgVars>>

\* lines 284-291: message CACHE_API_RESPONSE starts a cache.put of the payload
CacheApiResponseMessage ==
    /\ nev < MaxEvents
    /\ nev' = nev + 1
    /\ \E key \in RequestKeys, resp \in PagePayloads :
         /\ puts' = puts \cup MessagePuts(key, resp)
         /\ pageSeen' = [pageSeen EXCEPT ![key] = @ \cup {resp}]
    /\ UNCHANGED <<runtimeCache, handlers, lastNet, okSeen, lastResp>>
    /\ UNCHANGED <<dbVars, lcVars, drVars, exVars, pgVars>>

NextSW ==
    \/ FetchEvent
    \/ FetchResolves
    \/ FetchRejects
    \/ CatchBranch
    \/ PutCompletes
    \/ PutRejects
    \/ CacheApiResponseMessage

-----------------------------------------------------------------------------
(* Service worker: versions, install, activate, the fetch handler,         *)
(* cacheFirstStrategy, the message handler                                 *)
(*                                                                         *)
(* A version of the worker is the script of lines 106-292 with its own     *)
(* CACHE_NAME and RUNTIME_CACHE ("Bump cache versions whenever static      *)
(* assets like index.html change").  The registration activates a waiting  *)
(* version whose skip waiting flag is set without waiting for the handlers *)
(* of the version it replaces, which run on to their end.                  *)

\* successive versions of the worker script
Gens == {1, 2}
\* the pages of the origin that are open
Pages == {"p1", "p2"}

\* lines 108-109
CACHE_NAME(g) == [kind |-> "static", gen |-> g]
RUNTIME_CACHE(g) == [kind |-> "runtime", gen |-> g]
CacheNames ==
    {CACHE_NAME(g) : g \in Gens} \cup {RUNTIME_CACHE(g) : g \in Gens}

\* new URL(request.url): its origin and pathname
Url(origin, pathname) == [origin |-> origin, pathname |-> pathname]
ApiUrl == Url("self", "/api/collection")
ShellUrl == Url("self", "/index.html")
IconUrl == Url("self", "/favicon.ico")
CdnUrl == Url("cdn.tailwindcss.com", "/")
ForeignUrl == Url("example.com", "/data")
Urls == {ApiUrl, ShellUrl, IconUrl, CdnUrl, ForeignUrl}
\* lines 112-121: the shell and one of the icons
STATIC_ASSETS == {ShellUrl, IconUrl}
\* lines 124-130: one of the listed hosts
EXTERNAL_RESOURCES == {"cdn.tailwindcss.com"}

Methods == {"GET", "POST"}
Requests == [method : Methods, url : Urls]

\* url.pathname.startsWith('/api/')
StartsWithApi(pathname) == pathname \in {"/api/collection"}

\* variant: the handler does not look at the method
Route_AnyMethod(request) ==
    LET url == request.url IN
    IF StartsWithApi(url.pathname) THEN "networkFirst"
    ELSE IF url.origin = "self" /\ url.pathname \in {"/", "/index.html"}
    THEN "networkFirst"
    ELSE IF url.origin = "self" \/ url.origin \in EXTERNAL_RESOURCES
    THEN "cacheFirst"
    ELSE "networkFirst"

\* variant: the same-origin test comes before the /api/ test
Route_SameOriginFirst(request) ==
    LET url == request.url IN
    IF request.method # "GET" THEN "none"
    ELSE IF url.origin = "self" /\ url.pathname \in {"/", "/index.html"}
    THEN "networkFirst"
    ELSE IF url.origin = "self" \/ url.origin \in EXTERNAL_RESOURCES
    THEN "cacheFirst"
    ELSE "networkFirst"

\* lines 164-193: the strategy the fetch handler passes to respondWith, "none"
\* when it returns without calling respondWith
Route(request) ==
    LET url == request.url IN
    IF request.method # "GET" THEN "none"
    ELSE IF StartsWithApi(url.pathname) THEN "networkFirst"
    ELSE IF url.origin = "self" /\ url.pathname \in {"/", "/index.html"}
    THEN "networkFirst"
    ELSE IF url.origin = "self" \/ url.origin \in EXTERNAL_RESOURCES
    THEN "cacheFirst"
    ELSE "networkFirst"

\* the body of what the network serves, other than the bytes of a deployment
NetworkBytes == 10
\* a cache with no entry
EmptyCache == [u \in Urls |-> NoResponse]
\* variant: addAll stores the shell and not the other assets
AddAll_ShellOnly(cache, g) ==
    [u \in Urls |-> IF u = ShellUrl THEN Response(200, FALSE, g)
                    ELSE cache[u]]

\* cache.addAll(STATIC_ASSETS) by version g: the bytes of that deployment
AddAll(cache, g) ==
    [u \in Urls |-> IF u \in STATIC_ASSETS THEN Response(200, FALSE, g)
                    ELSE cache[u]]
\* caches.open(name) creates the cache if it does not exist
Open(ns, name) == ns \cup {name}

\* variant: the install handler does not call skipWaiting
InstallDone_NoSkip(flags, g) == flags

\* line 141: .then(() => self.skipWaiting())
InstallDone(flags, g) == [flags EXCEPT ![g] = TRUE]

\* variant: only the static caches of other versions are deleted
OldCaches_KeepRuntime(g, cacheNames) ==
    {n \in cacheNames : n.kind = "static" /\ n # CACHE_NAME(g)}

\* lines 151-156: the caches the activate handler deletes
OldCaches(g, cacheNames) ==
    {n \in cacheNames : n # CACHE_NAME(g) /\ n # RUNTIME_CACHE(g)}

\* variant: clients.claim() is not chained after the deletions
ClaimReady_Eager(pending) == TRUE

\* lines 148-159: .then(() => self.clients.claim()) runs when Promise.all of
\* the deletions has resolved
ClaimReady(pending) == pending = {}

\* variant: every network response is cached
Storable_Always(networkResponse) == TRUE

\* line 208: if (networkResponse.ok)
Storable(networkResponse) == Ok(networkResponse)

\* variant: the lookup result is ignored, the request always goes to the network
CacheHit_Revalidate(cachedResponse) == FALSE

\* line 201: if (cachedResponse)
CacheHit(cachedResponse) == cachedResponse # NoResponse

\* line 217: new Response('Offline', { status: 503 })
OfflinePlaceholder == Response(503, FALSE, 0)

\* line 217: cache.match('/index.html') || new Response(...).  The left operand
\* is the Promise that cache.match returns, an object and so truthy: the
\* expression is that promise, and the strategy resolves to what the promise
\* resolves to, the entry or undefined
PromiseOr(settled, alternative) == settled

\* message types a page may post
MessageTypes == {"SKIP_WAITING", "CACHE_API_RESPONSE", "SKIP_ACTIVATION"}

\* variant: the handler knows no SKIP_WAITING
MessageEffects_NoSkip(type) ==
    IF type = "CACHE_API_RESPONSE" THEN {"cachePut"} ELSE {}

\* lines 279-292: what the message handler calls for a message of this type
MessageEffects(type) ==
    (IF type = "SKIP_WAITING" THEN {"skipWaiting"} ELSE {})
    \cup (IF type = "CACHE_API_RESPONSE" THEN {"cachePut"} ELSE {})

\* the progress of an activate handler: its position, the cache names it
\* listed, the deletions in flight, the deletions completed
Activation(pc, snapshot, pending, deleted) ==
    [pc |-> pc, snapshot |-> snapshot, pending |-> pending,
     deleted |-> deleted]
NoActivation == Activation("idle", {}, {}, {})

\* a strategy invocation: the version running it, the request, its position,
\* the network calls it has issued, what its cache lookup found, whether the
\* Cache object it holds was deleted from Cache Storage meanwhile
Invocation(id, g, strategy, url) ==
    [id |-> id, gen |-> g, strategy |-> strategy, url |-> url,
     pc |-> "start", calls |-> 0, hit |-> NoResponse, orphan |-> FALSE]

\* history of a resolved strategy: the response, the branch that gave it,
\* the network calls the invocation issued, what its cache lookup had found
Served(h, resp, via) ==
    [strategy |-> h.strategy, resp |-> resp, via |-> via, calls |-> h.calls,
     hit |-> h.hit]
NoServed ==
    [strategy |-> "none", resp |-> NoResponse, via |-> "none", calls |-> 0,
     hit |-> NoResponse]

\* history of a fetch event: the request, the strategy passed to respondWith,
\* the number of strategy invocations the handler started
Routed(request, route, started) ==
    [request |-> request, route |-> route, started |-> started]
NoRoute == Routed([method |-> "none", url |-> ShellUrl], "none", 0)
\* history of a message: its number among the page events, the version that
\* got it, its type, the state of that version on receipt, whether an
\* activation was under way
Message(n, g, type, state, blocked) ==
    [n |-> n, gen |-> g, type |-> type, state |-> state, blocked |-> blocked]
NoMessage == Message(0, 0, "none", "none", FALSE)

\* the version that is the registration's active worker, 0 for none
ActiveGen ==
    IF \E g \in Gens : worker[g] \in {"activating", "activated"}
    THEN CHOOSE g \in Gens : worker[g] \in {"activating", "activated"}
    ELSE 0

\* Try Activate is held back while the active worker is activating
Activating == \E g \in Gens : worker[g] = "activating"

\* Activate: the waiting version g becomes the active worker, the version it
\* replaces becomes redundant, the pages that version controlled are handed
\* to g, and the activate event is dispatched
Activated(g) ==
    /\ worker' = [h \in Gens |->
                    IF h = g THEN "activating"
                    ELSE IF worker[h] = "activated" THEN "redundant"
                    ELSE worker[h]]
    /\ controller' = [p \in Pages |-> IF controller[p] # 0 THEN g ELSE 0]
    /\ act' = [act EXCEPT ![g] = Activation("keys", {}, {}, {})]

InitWorker ==
    /\ worker = [g \in Gens |-> "none"]
    /\ skipFlag = [g \in Gens |-> FALSE]
    /\ names = {}
    /\ staticCache = [g \in Gens |-> EmptyCache]
    /\ act = [g \in Gens |-> NoActivation]
    /\ controller = [p \in Pages |-> 0]
    /\ running = {}
    /\ served = NoServed
    /\ routed = NoRoute
    /\ lastMsg = NoMessage
    /\ lev = 0

\* lines 133-136: a version is deployed and its install event dispatched; the
\* handler opens CACHE_NAME and starts addAll
InstallEvent ==
    /\ \E g \in Gens :
         /\ worker[g] = "none"
         /\ \A h \in Gens : h < g => worker[h] \notin {"none", "installing"}
         /\ worker' = [worker EXCEPT ![g] = "installing"]
         /\ names' = Open(names, CACHE_NAME(g))
    /\ UNCHANGED <<skipFlag, staticCache, act, controller, running, served,
                   routed, lastMsg, lev>>
    /\ UNCHANGED <<dbVars, swVars, drVars, exVars, pgVars>>

\* lines 137-141: addAll settles.  Resolved: the assets are in the cache (if
\* the cache was not deleted meanwhile), skipWaiting is called, the version is
\* installed and replaces a version that was waiting.  Rejected: the install
\* fails
AddAllSettles ==
    /\ \E g \in Gens : \E ok \in BOOLEAN :
         /\ worker[g] = "installing"
         /\ IF ok
            THEN /\ staticCache' =
                      IF CACHE_NAME(g) \in names
                      THEN [staticCache EXCEPT ![g] = AddAll(@, g)]
                      ELSE staticCache
                 /\ skipFlag' = InstallDone(skipFlag, g)
                 /\ worker' = [h \in Gens |->
                                 IF h = g THEN "installed"
                                 ELSE IF worker[h] = "installed"
                                 THEN "redundant"
                                 ELSE worker[h]]
            ELSE /\ worker' = [worker EXCEPT ![g] = "redundant"]
                 /\ UNCHANGED <<staticCache, skipFlag>>
    /\ UNCHANGED <<names, act, controller, running, served, routed, lastMsg,
                   lev>>
    /\ UNCHANGED <<dbVars, swVars, drVars, exVars, pgVars>>

\* Try Activate, invoked when an install or an activation has finished: a
\* waiting version with its flag set is activated
Activate ==
    /\ \E g \in Gens :
         /\ worker[g] = "installed"
         /\ skipFlag[g]
         /\ ~Activating
         /\ Activated(g)
    /\ UNCHANGED <<skipFlag, names, staticCache, running, served, routed,
                   lastMsg, lev>>
    /\ UNCHANGED <<dbVars, swVars, drVars, exVars, pgVars>>

\* lines 146-156: caches.keys() resolves and a caches.delete is started for
\* every cache that is not one of the version's two
ActivateKeys ==
    /\ \E g \in Gens :
         /\ act[g].pc = "keys"
         /\ act' = [act EXCEPT ![g] =
                      Activation("deleting", names, OldCaches(g, names), {})]
    /\ UNCHANGED <<worker, skipFlag, names, staticCache, controller, running,
                   served, routed, lastMsg, lev>>
    /\ UNCHANGED <<dbVars, swVars, drVars, exVars, pgVars>>

\* line 154: a caches.delete completes; a handler that holds the deleted
\* cache keeps a Cache object that is no longer in Cache Storage
DeleteCompletes ==
    /\ \E g \in Gens : \E n \in act[g].pending :
         /\ names' = names \ {n}
         /\ staticCache' = IF n.kind = "static"
                           THEN [staticCache EXCEPT ![n.gen] = EmptyCache]
                           ELSE staticCache
         /\ running' = {IF h.gen = n.gen /\ h.strategy = "cacheFirst"
                           /\ h.pc = "fetch" /\ n.kind = "static"
                        THEN [h EXCEPT !.orphan = TRUE] ELSE h : h \in running}
         /\ act' = [act EXCEPT ![g].pending = @ \ {n},
                               ![g].deleted = @ \cup {n}]
    /\ UNCHANGED <<worker, skipFlag, controller, served, routed, lastMsg, lev>>
    /\ UNCHANGED <<dbVars, swVars, drVars, exVars, pgVars>>

\* line 159: clients.claim(): every open page is controlled by the version;
\* the promise given to waitUntil settles and the version is activated
Claim ==
    /\ \E g \in Gens :
         /\ act[g].pc = "deleting"
         /\ ClaimReady(act[g].pending)
         /\ controller' = [p \in Pages |-> g]
         /\ act' = [act EXCEPT ![g].pc = "claimed"]
         /\ worker' = [worker EXCEPT ![g] = "activated"]
    /\ UNCHANGED <<skipFlag, names, staticCache, running, served, routed,
                   lastMsg, lev>>
    /\ UNCHANGED <<dbVars, swVars, drVars, exVars, pgVars>>

\* a page is loaded or reloaded: the active worker of the registration, if
\* any, controls it
PageNavigates ==
    /\ lev < MaxLifeEvents
    /\ lev' = lev + 1
    /\ \E p \in Pages : controller' = [controller EXCEPT ![p] = ActiveGen]
    /\ UNCHANGED <<worker, skipFlag, names, staticCache, act, running, served,
                   routed, lastMsg>>
    /\ UNCHANGED <<dbVars, swVars, drVars, exVars, pgVars>>

\* lines 164-193: a controlled page issues a request, the fetch event is
\* dispatched to the version that controls the page
FetchHandler ==
    /\ lev < MaxLifeEvents
    /\ lev' = lev + 1
    /\ \E p \in Pages : \E request \in Requests :
         LET g == controller[p]
             route == Route(request)
             started == IF route = "none" THEN {}
                        ELSE {Invocation(lev + 1, g, route, request.url)}
         IN
         /\ g # 0
         /\ running' = running \cup started
         /\ routed' = Routed(request, route, Cardinality(started))
    /\ UNCHANGED <<worker, skipFlag, names, staticCache, act, controller,
                   served, lastMsg>>
    /\ UNCHANGED <<dbVars, swVars, drVars, exVars, pgVars>>

\* lines 198-205: open CACHE_NAME, look the request up; a hit is returned, a
\* miss goes to the network
CacheFirstMatch ==
    /\ \E h \in running :
         LET cachedResponse == staticCache[h.gen][h.url]
             found == [h EXCEPT !.hit = cachedResponse]
         IN
         /\ h.strategy = "cacheFirst"
         /\ h.pc = "start"
         /\ names' = Open(names, CACHE_NAME(h.gen))
         /\ IF CacheHit(cachedResponse)
            THEN /\ running' = running \ {h}
                 /\ served' = Served(found, cachedResponse, "cache")
            ELSE /\ running' = (running \ {h}) \cup
                        {[found EXCEPT !.pc = "fetch", !.calls = @ + 1]}
                 /\ UNCHANGED served
    /\ UNCHANGED <<worker, skipFlag, staticCache, act, controller, routed,
                   lastMsg, lev>>
    /\ UNCHANGED <<dbVars, swVars, drVars, exVars, pgVars>>

\* lines 205-212: fetch resolves; an ok response is put in the cache the
\* handler holds (the put is not awaited and may fail), and is returned
CacheFirstFetchResolves ==
    /\ \E h \in running : \E resp \in NetworkResponses(NetworkBytes) :
       \E stored \in BOOLEAN :
         /\ h.strategy = "cacheFirst"
         /\ h.pc = "fetch"
         /\ running' = running \ {h}
         /\ staticCache' =
              IF Storable(resp) /\ stored /\ ~h.orphan
                 /\ CACHE_NAME(h.gen) \in names
              THEN [staticCache EXCEPT ![h.gen] = Put(@, h.url, resp)]
              ELSE staticCache
         /\ served' = Served(h, resp, "network")
    /\ UNCHANGED <<worker, skipFlag, names, act, controller, routed, lastMsg,
                   lev>>
    /\ UNCHANGED <<dbVars, swVars, drVars, exVars, pgVars>>

\* line 213: fetch rejects
CacheFirstFetchRejects ==
    /\ \E h \in running :
         /\ h.strategy = "cacheFirst"
         /\ h.pc = "fetch"
         /\ running' = (running \ {h}) \cup {[h EXCEPT !.pc = "catch"]}
    /\ UNCHANGED <<worker, skipFlag, names, staticCache, act, controller,
                   served, routed, lastMsg, lev>>
    /\ UNCHANGED <<dbVars, swVars, drVars, exVars, pgVars>>

\* lines 213-218: the catch branch opens CACHE_NAME again and answers with
\* the lookup of '/index.html'
CacheFirstCatch ==
    /\ \E h \in running :
         /\ h.strategy = "cacheFirst"
         /\ h.pc = "catch"
         /\ names' = Open(names, CACHE_NAME(h.gen))
         /\ running' = running \ {h}
         /\ served' = Served(h, PromiseOr(staticCache[h.gen][ShellUrl],
                                          OfflinePlaceholder), "catch")
    /\ UNCHANGED <<worker, skipFlag, staticCache, act, controller, routed,
                   lastMsg, lev>>
    /\ UNCHANGED <<dbVars, swVars, drVars, exVars, pgVars>>

\* lines 222-254 as far as Cache Storage goes: an ok response and the catch
\* branch open RUNTIME_CACHE, a response that is not ok opens nothing.  The
\* entries of the runtime cache are followed by FetchResolves .. PutRejects
NetworkFirstRuns ==
    /\ \E h \in running : \E resp \in NetworkResponses(NetworkBytes) \cup {NoResponse} :
         /\ h.strategy = "networkFirst"
         /\ running' = running \ {h}
         /\ names' = IF resp = NoResponse \/ Ok(resp)
                     THEN Open(names, RUNTIME_CACHE(h.gen))
                     ELSE names
         /\ served' = Served([h EXCEPT !.calls = 1],
                             IF resp = NoResponse THEN OfflineResponse
                             ELSE resp,
                             IF resp = NoResponse THEN "catch" ELSE "network")
    /\ UNCHANGED <<worker, skipFlag, staticCache, act, controller, routed,
                   lastMsg, lev>>
    /\ UNCHANGED <<dbVars, swVars, drVars, exVars, pgVars>>

\* lines 279-292: a page posts a message to a version of the worker.
\* skipWaiting() sets the flag and invokes Try Activate; CACHE_API_RESPONSE
\* opens RUNTIME_CACHE
MessageHandler ==
    /\ lev < MaxLifeEvents
    /\ lev' = lev + 1
    /\ \E g \in Gens : \E type \in MessageTypes :
         LET effects == MessageEffects(type)
             skip == "skipWaiting" \in effects
         IN
         /\ worker[g] \in {"installed", "activating", "activated"}
         /\ skipFlag' = IF skip THEN [skipFlag EXCEPT ![g] = TRUE]
                        ELSE skipFlag
         /\ names' = IF "cachePut" \in effects
                     THEN Open(names, RUNTIME_CACHE(g)) ELSE names
         /\ IF skip /\ worker[g] = "installed" /\ ~Activating
            THEN Activated(g)
            ELSE UNCHANGED <<worker, controller, act>>
         /\ lastMsg' = Message(lev + 1, g, type, worker[g], Activating)
    /\ UNCHANGED <<staticCache, running, served, routed>>
    /\ UNCHANGED <<dbVars, swVars, drVars, exVars, pgVars>>

NextLife ==
    \/ InstallEvent
    \/ AddAllSettles
    \/ Activate
    \/ ActivateKeys
    \/ DeleteCompletes
    \/ Claim
    \/ PageNavigates
    \/ FetchHandler
    \/ CacheFirstMatch
    \/ CacheFirstFetchResolves
    \/ CacheFirstFetchRejects
    \/ CacheFirstCatch
    \/ NetworkFirstRuns
    \/ MessageHandler

\* lines 164-193 with both strategies followed: a controlled page issues a
\* request; the handler passes to respondWith the strategy of the request,
\* which runs up to its first await
RespondWith ==
    /\ nev < MaxEvents
    /\ nev' = nev + 1
    /\ \E p \in Pages : \E request \in Requests :
         LET g == controller[p]
             route == Route(request)
         IN
         /\ g # 0
         /\ route # "none"
         /\ route = "networkFirst" => request.url.pathname \in RequestKeys
         /\ routed' = Routed(request, route, 1)
         /\ IF route = "networkFirst"
            THEN /\ handlers' = handlers \cup
                        {[id |-> nev + 1, key |-> request.url.pathname,
                          pc |-> "fetch"]}
                 /\ UNCHANGED running
            ELSE /\ running' = running \cup
                        {Invocation(nev + 1, g, route, request.url)}
                 /\ UNCHANGED handlers
    /\ UNCHANGED <<runtimeCache, puts, lastNet, okSeen, pageSeen, lastResp>>
    /\ UNCHANGED <<worker, skipFlag, names, staticCache, act, controller,
                   served, lastMsg, lev>>
    /\ UNCHANGED <<dbVars, drVars, exVars, pgVars>>

\* the two strategies and the message handler over the two caches of an
\* activated version
NextCaches ==
    \/ RespondWith
    \/ CacheFirstMatch
    \/ CacheFirstFetchResolves
    \/ CacheFirstFetchRejects
    \/ CacheFirstCatch
    \/ FetchResolves
    \/ FetchRejects
    \/ CatchBranch
    \/ PutCompletes
    \/ PutRejects
    \/ CacheApiResponseMessage

-----------------------------------------------------------------------------
(* clearAll and its transaction                                            *)
(*                                                                         *)
(* clearAll makes one readwrite transaction over the five stores, asks     *)
(* each store to clear and returns transaction.complete.  An               *)
(* IDBTransaction has no property `complete`: the value is undefined and   *)
(* the promise of the async method resolves when the method returns, while *)
(* the requests are still pending.  The transaction commits later, all of  *)
(* it or none: it is aborted when the page goes away before the commit.    *)
(* A transaction made after it on one of the stores waits for it.          *)

\* no clearAll transaction is unfinished
NoTx == "none"

\* the records of the five stores of line 187
Stored == collection \cup wishlist \cup syncQueue \cup apiCache \cup profile

\* lines 186-194: the transaction is made and the clear requests are placed;
\* the method returns and its promise resolves
clearAllReturns ==
    /\ left > 0
    /\ left' = left - 1
    /\ \/ /\ Rejected("clearAll")
          /\ UNCHANGED tx
       \/ /\ db = "open"
          /\ tx = NoTx
          /\ tx' = "active"
          /\ last' = Call("clearAll", NoItem, NoItem, Stored # {}, 0,
                          "pending")
          /\ UNCHANGED <<db, collection, wishlist, syncQueue, qkey, apiCache,
                         profile, confirmed, enq>>
    /\ UNCHANGED map3d
    /\ UNCHANGED <<swVars, lcVars, drVars, exVars>>

\* the transaction commits: the five stores are cleared together
TxCommits ==
    /\ tx = "active"
    /\ tx' = NoTx
    /\ collection' = {}
    /\ wishlist' = {}
    /\ syncQueue' = {}
    /\ apiCache' = {}
    /\ profile' = {}
    /\ last' = [last EXCEPT !.result = "cleared"]
    /\ UNCHANGED <<db, qkey, confirmed, enq, left, map3d>>
    /\ UNCHANGED <<swVars, lcVars, drVars, exVars>>

\* the page is closed or reloaded: a transaction that has not committed is
\* aborted and none of its requests takes effect
PageUnloads ==
    /\ db = "open"
    /\ db' = "null"
    /\ tx' = NoTx
    /\ last' = IF tx = "active" THEN [last EXCEPT !.result = "aborted"]
               ELSE last
    /\ UNCHANGED <<collection, wishlist, syncQueue, qkey, apiCache, profile,
                   confirmed, enq, left, map3d>>
    /\ UNCHANGED <<swVars, lcVars, drVars, exVars>>

\* a method called while the clearAll transaction is unfinished: its
\* transaction has an overlapping scope and starts after that one has finished
AfterTx(method) == tx = NoTx /\ method

\* clearAll with the other methods and the unload of the page
NextClear ==
    \/ init
    \/ AfterTx(saveCollectionItem)
    \/ AfterTx(addToSyncQueue)
    \/ AfterTx(saveProfile)
    \/ AfterTx(cacheAPIResponse)
    \/ clearAllReturns
    \/ TxCommits
    \/ PageUnloads

-----------------------------------------------------------------------------
(* Map3D (src/frontend/components/maps/Map3D.js, lines 6-174)              *)

\* init calls explored per behaviour
MaxInitCalls == 3

\* the instance after the constructor (lines 7-14) and the page around it:
\* globe is 0 for null and else the number of the Globe object, fetches the
\* GeoJSON fetches in flight, built the Globe objects constructed so far,
\* container the content of the container element ("absent": no element),
\* data whether collectionData has items, painted whether the colours of the
\* globe were computed from items
Map3D(isLoaded, globe, fetches, built, calls, container, data, painted) ==
    [isLoaded |-> isLoaded, globe |-> globe, fetches |-> fetches,
     built |-> built, calls |-> calls, container |-> container,
     data |-> data, painted |-> painted]
NewMap3D == Map3D(FALSE, 0, 0, 0, 0, "empty", FALSE, FALSE)

\* line 17: if (this.isLoaded) { this.resize(); return; }
Proceeds(m) == ~m.isLoaded

\* lines 16-32: init(onCountryClick) up to the fetch of the GeoJSON
Map3DInit ==
    /\ map3d.calls < MaxInitCalls
    /\ map3d' =
         IF ~Proceeds(map3d) \/ map3d.container = "absent"
         THEN [map3d EXCEPT !.calls = @ + 1]
         ELSE [map3d EXCEPT !.calls = @ + 1, !.container = "loading",
                            !.fetches = @ + 1]
    /\ UNCHANGED tx
    /\ UNCHANGED <<dbVars, swVars, lcVars, drVars, exVars>>

\* lines 33-98: the response of a fetch arrives.  Not ok: the error goes to
\* the catch of line 99.  Ok: countriesData and isLoaded are set, and the
\* globe is constructed in the container unless the library is missing
\* (line 45) or the construction throws (line 94); a throw after the
\* assignment of lines 52-74 leaves the globe constructed
GeoJSONArrives ==
    /\ map3d.fetches > 0
    /\ \E ok \in BOOLEAN, library \in BOOLEAN,
          throws \in {"no", "in Globe()", "after line 74"} :
         map3d' =
           IF ~ok
           THEN [map3d EXCEPT !.fetches = @ - 1, !.container = "netError"]
           ELSE IF ~library
           THEN [map3d EXCEPT !.fetches = @ - 1, !.isLoaded = TRUE,
                              !.container = "libError"]
           ELSE IF throws = "in Globe()"
           THEN [map3d EXCEPT !.fetches = @ - 1, !.isLoaded = TRUE,
                              !.container = "initError"]
           ELSE [map3d EXCEPT !.fetches = @ - 1, !.isLoaded = TRUE,
                              !.built = @ + 1, !.globe = map3d.built + 1,
                              !.container = IF throws = "no" THEN "globe"
                                            ELSE "initError",
                              !.painted = map3d.data]
    /\ UNCHANGED tx
    /\ UNCHANGED <<dbVars, swVars, lcVars, drVars, exVars>>

\* lines 99-102: the fetch rejects
GeoJSONFails ==
    /\ map3d.fetches > 0
    /\ map3d' = [map3d EXCEPT !.fetches = @ - 1, !.container = "netError"]
    /\ UNCHANGED tx
    /\ UNCHANGED <<dbVars, swVars, lcVars, drVars, exVars>>

\* the page shows or removes the container element of the 3D view
ViewToggles ==
    /\ map3d.fetches = 0
    /\ map3d' = [map3d EXCEPT !.container =
                    IF @ = "absent" THEN "empty" ELSE "absent"]
    /\ UNCHANGED tx
    /\ UNCHANGED <<dbVars, swVars, lcVars, drVars, exVars>>

\* lines 105-110: renderData(data); the colours are refreshed when the
\* globe exists
renderData ==
    /\ \E data \in BOOLEAN :
         /\ data # map3d.data
         /\ map3d' = [map3d EXCEPT !.data = data,
                                   !.painted = IF map3d.isLoaded
                                                  /\ map3d.globe # 0
                                               THEN data ELSE @]
    /\ UNCHANGED tx
    /\ UNCHANGED <<dbVars, swVars, lcVars, drVars, exVars>>

NextMap ==
    \/ Map3DInit
    \/ renderData
    \/ GeoJSONArrives
    \/ GeoJSONFails
    \/ ViewToggles

\* the state of the page after the constructors
InitPage ==
    /\ tx = NoTx
    /\ map3d = NewMap3D

-----------------------------------------------------------------------------
(* Background sync and the drain of the sync queue                         *)
(*                                                                         *)
(* The worker's side is lines 256-276.  The page's side, the Reconciler    *)
(* that drains the queue on a trigger, follows the specification of the    *)
(* Reconciler: Idle -> Draining -> Idle, a trigger while Draining a no-op. *)

\* tags a sync event may carry
SyncTags == {"sync-pending-operations", "other"}

\* line 269: self.clients.matchAll(): the pages the active version controls
Clients == {p \in Pages : controller[p] # 0 /\ controller[p] = ActiveGen}

\* variant: the message goes to one client only
Broadcast_FirstClient(box, clients) ==
    IF clients = {} THEN box
    ELSE [box EXCEPT ![CHOOSE p \in clients : TRUE] = @ + 1]

\* lines 270-272: clients.forEach(client => client.postMessage(...))
Broadcast(box, clients) ==
    [p \in Pages |-> IF p \in clients THEN box[p] + 1 ELSE box[p]]

\* variant: every trigger starts a drain
StartDrain_NoGuard(drains, p) == drains \cup {p}

\* a trigger: a drain starts unless one is running
StartDrain(drains, p) == IF drains # {} THEN drains ELSE {p}

\* a submission of a queue entry to the remote API by the drain of a page
Submission(id, p) == [id |-> id, by |-> p]

\* the maximum attempt count of a queue entry, a tunable parameter
MaxAttempts == 1

\* what the remote API answers a call: accepted, a transient failure
\* (network, 5xx, timeout) or a permanent rejection (4xx)
Outcomes == {"accepted", "transient", "permanent"}

\* what the server holds of an entity: whether it exists, and the payload of
\* the write applied last, named by the ordinal of its enqueue
RemoteEntity(present, payload) == [present |-> present, payload |-> payload]

\* the id the server assigns to a new entity
Assigned(target) == IF target.k = "number" THEN target ELSE Srv(2)

\* history of an entity: whether the page issued a Create and a Delete of
\* it, whether the Delete came before any remote call for it, how many
\* Updates the page issued and the ordinal of the last one, and whether a
\* remote call was made for it
History(created, deleted, early, updates, lastUpdate, called) ==
    [created |-> created, deleted |-> deleted, early |-> early,
     updates |-> updates, lastUpdate |-> lastUpdate, called |-> called]
NoHistory == History(FALSE, FALSE, FALSE, 0, 0, FALSE)

\* the history after the page issued the mutation numbered n
Issued(h, type, n) ==
    CASE type = "create" -> [h EXCEPT !.created = TRUE]
      [] type = "update" -> [h EXCEPT !.updates = @ + 1, !.lastUpdate = n]
      [] type = "delete" -> [h EXCEPT !.deleted = TRUE, !.early = ~h.called]

\* an entry as the history of a pass names it
Tag(e) == [ord |-> e.ord, target |-> e.target]

\* the drain pass, running or last run: its state; whether every remote call
\* of it succeeded; the entries it deferred and those it marked Failed; the
\* number of times the page process was killed and the entries that were in
\* flight when it was killed last
Pass(state, clean, deferred, failed, kills, cut) ==
    [state |-> state, clean |-> clean, deferred |-> deferred,
     failed |-> failed, kills |-> kills, cut |-> cut]
NoPass == Pass("idle", TRUE, {}, {}, 0, {})

\* the records of an entity: under its server id or with its localId
LocalRecords(store, target) ==
    {x \in store : x.id = target \/ x.offlineId = target}

\* variant: every target is taken to have a server id
ServerIdOf_Assumed(store, target) == Assigned(target)

\* the server id of the target of a queue entry: the target itself, or the id
\* of the record that carries the target as its localId, if that id is not an
\* offline_ id (lines 71-74: a record without server id has its offlineId as
\* id)
ServerIdOf(store, target) ==
    IF target.k = "number" THEN target
    ELSE IF \E x \in store : x.offlineId = target /\ x.id.k = "number"
         THEN (CHOOSE x \in store :
                   x.offlineId = target /\ x.id.k = "number").id
         ELSE None

\* variant: the server id is attached with a save alone
Attach_PutOnly(store, target, sid) ==
    StorePut(store, NewItem([id |-> sid,
                             offlineId |-> IF target.k = "offline_"
                                           THEN target ELSE None,
                             synced |-> TRUE], 0, "a"))

\* a Create was accepted: the record is stored under the server id with
\* synced = true and its localId kept; the record under the offline_ key is
\* deleted first (deleteCollectionItem, then saveCollectionItem), as the
\* unique index offlineId rejects a second record of that localId
Attach(store, target, sid) ==
    StorePut(StoreDelete(store, target),
             NewItem([id |-> sid,
                      offlineId |-> IF target.k = "offline_"
                                    THEN target ELSE None,
                      synced |-> TRUE], 0, "a"))

\* an Update was accepted: the record is saved with synced = true
MarkSynced(store, target) ==
    IF LocalRecords(store, target) = {} THEN store
    ELSE LET x == CHOOSE y \in LocalRecords(store, target) : TRUE IN
         StorePut(store, NewItem([x EXCEPT !.synced = TRUE], 0, "a"))

\* a Delete was completed: the record of the entity is deleted
Discard(store, target) == store \ LocalRecords(store, target)

\* what the acceptance of an entry does to the local store
LocalApply(store, e) ==
    CASE e.type = "create" -> Attach(store, e.target, Assigned(e.target))
      [] e.type = "update" -> MarkSynced(store, e.target)
      [] e.type = "delete" -> Discard(store, e.target)

\* what an applied call does to the server
ServerApply(r, e) ==
    CASE e.type = "create" ->
             [r EXCEPT ![e.target] = RemoteEntity(TRUE, e.ord)]
      [] e.type = "update" ->
             [r EXCEPT ![e.target] = RemoteEntity(@.present, e.ord)]
      [] e.type = "delete" ->
             [r EXCEPT ![e.target] = RemoteEntity(FALSE, @.payload)]

\* fail(queueId): the entry stays in the queue with attempts incremented
Fail(queue, id) ==
    {IF e.id = id THEN [e EXCEPT !.attempts = @ + 1] ELSE e : e \in queue}

\* the entry is frozen as Failed
MarkFailed(queue, id) ==
    {IF e.id = id THEN [e EXCEPT !.status = "failed"] ELSE e : e \in queue}

\* the entries a pass may still pop: pending, and not deferred by this pass
Eligible(queue, deferred) ==
    {e \in queue : e.status = "pending" /\ e.id \notin deferred}

\* variant: a permanent rejection stops the pass as well
Continue_OnlyAccepted(outcome) == outcome = "accepted"

\* variant: no failure stops the pass
Continue_Always(outcome) == TRUE

\* whether the pass goes on after an answer: it stops on a transient failure
Continue(outcome) == outcome \in {"accepted", "permanent"}

InitDrain ==
    /\ mailbox = [p \in Pages |-> 0]
    /\ reconciler = {}
    /\ inflight = {}
    /\ ntrig = 0
    /\ remote = [t \in Targets |-> RemoteEntity(t \in ServerIds, 0)]
    /\ hist = [t \in Targets |-> NoHistory]
    /\ pass = NoPass
    /\ InitPage

\* lines 257-263 and 266-276: a sync event; with the tag of the application
\* every client is sent SYNC_PENDING_OPERATIONS
SyncEvent ==
    /\ ntrig < MaxTriggers
    /\ ntrig' = ntrig + 1
    /\ \E tag \in SyncTags :
         mailbox' = IF tag = "sync-pending-operations"
                    THEN Broadcast(mailbox, Clients)
                    ELSE mailbox
    /\ UNCHANGED <<reconciler, inflight>>
    /\ UNCHANGED <<dbVars, swVars, lcVars, exVars, pgVars>>

\* a pass begins when a trigger finds the Reconciler Idle
Begin(drains, p) ==
    IF drains = {}
    THEN Pass("draining", TRUE, {}, {}, p.kills, p.cut)
    ELSE p

\* a page handles SYNC_PENDING_OPERATIONS: a proxy-originated trigger
PageReceives ==
    /\ \E p \in Pages :
         /\ mailbox[p] > 0
         /\ mailbox' = [mailbox EXCEPT ![p] = @ - 1]
         /\ reconciler' = StartDrain(reconciler, p)
    /\ pass' = Begin(reconciler, pass)
    /\ UNCHANGED <<inflight, ntrig>>
    /\ UNCHANGED <<schema, dbver, remote, hist, pgVars>>
    /\ UNCHANGED <<dbVars, swVars, lcVars>>

\* the pages that are open: with the worker active, those it controls
OpenPages == {p \in Pages : controller[p] # 0}

\* a page detects a reconnect: a page-originated trigger
PageTrigger ==
    /\ ntrig < MaxTriggers
    /\ ntrig' = ntrig + 1
    /\ \E p \in OpenPages : reconciler' = StartDrain(reconciler, p)
    /\ pass' = Begin(reconciler, pass)
    /\ UNCHANGED <<mailbox, inflight>>
    /\ UNCHANGED <<schema, dbver, remote, hist, pgVars>>
    /\ UNCHANGED <<dbVars, swVars, lcVars>>

\* a local mutation of the page: the record is saved (saveCollectionItem,
\* lines 66-78) and its queue entry enqueued (addToSyncQueue, lines 119-131)
\* together.  A Create makes a record without id; an Update saves the
\* stored record of the target again; a Delete is enqueued and the record
\* is discarded when the Reconciler completes the entry
Mutate ==
    /\ db = "open"
    /\ left > 0
    /\ left' = left - 1
    /\ \E type \in QTypes, target \in Targets, t \in Clock, r \in Rand :
         LET had == LocalRecords(collection, target)
             item == IF type = "create" THEN NoItem
                     ELSE [(CHOOSE x \in had : TRUE) EXCEPT !.synced = FALSE]
             rec == NewItem(item, t, r)
             queueItem == QueueItem([type |-> type, target |-> target,
                                     id |-> 0, status |-> "pending"],
                                    t, enq + 1)
         IN
         /\ ~hist[target].deleted
         /\ IF type = "create"
            THEN had = {} /\ ~hist[target].created /\ rec.id = target
            ELSE had # {}
         /\ collection' = IF type = "delete" THEN collection
                          ELSE StorePut(collection, rec)
         /\ syncQueue' = StoreAdd(syncQueue, queueItem, qkey)
         /\ qkey' = NextKey(qkey, AddKey(queueItem, qkey))
         /\ enq' = enq + 1
         /\ hist' = [hist EXCEPT ![target] = Issued(@, type, enq + 1)]
         /\ last' = Call("addToSyncQueue", NoItem, NoItem, FALSE,
                         AddKey(queueItem, qkey), "stored")
    /\ UNCHANGED <<db, wishlist, apiCache, profile, confirmed>>
    /\ UNCHANGED <<schema, dbver, remote, pass, pgVars>>
    /\ UNCHANGED <<swVars, lcVars, drVars>>

\* a running drain pops the oldest entry of getSyncQueue() (lines 133-137)
\* that is eligible and marks it in flight, one at a time.  An entry at the
\* maximum attempt count is frozen as Failed; an Update whose target has no
\* server id waits; a Delete whose target has no server id is completed with
\* no remote call, entry and record discarded; any other entry is sent to
\* the remote API
Submit ==
    /\ db = "open"
    /\ \E p \in reconciler :
         LET mine == {x \in inflight : x.by = p}
             todo == Eligible(syncQueue, pass.deferred)
             e == GetAll(todo)[1]
             sid == ServerIdOf(collection, e.target)
         IN
         /\ mine = {}
         /\ todo # {}
         /\ IF e.attempts >= MaxAttempts
            THEN /\ syncQueue' = MarkFailed(syncQueue, e.id)
                 /\ pass' = [pass EXCEPT !.failed = @ \cup {Tag(e)},
                                         !.clean = FALSE]
                 /\ UNCHANGED <<collection, inflight, hist>>
            ELSE IF e.type = "update" /\ sid = None
            THEN /\ pass' = [pass EXCEPT !.deferred = @ \cup {e.id}]
                 /\ UNCHANGED <<syncQueue, collection, inflight, hist>>
            ELSE IF e.type = "delete" /\ sid = None
            THEN /\ syncQueue' = StoreDelete(syncQueue, e.id)
                 /\ collection' = Discard(collection, e.target)
                 /\ UNCHANGED <<inflight, pass, hist>>
            ELSE /\ inflight' = inflight \cup {Submission(e.id, p)}
                 /\ hist' = [hist EXCEPT ![e.target].called = TRUE]
                 /\ UNCHANGED <<syncQueue, collection, pass>>
    /\ UNCHANGED <<db, wishlist, qkey, apiCache, profile, confirmed, enq,
                   last, left>>
    /\ UNCHANGED <<mailbox, reconciler, ntrig>>
    /\ UNCHANGED <<schema, dbver, remote, pgVars>>
    /\ UNCHANGED <<swVars, lcVars>>

\* the remote API answers a submission.  Accepted: the local record is
\* updated and the entry completed with removeFromSyncQueue (lines 139-143).
\* A permanent rejection freezes the entry as Failed and the pass goes on; a
\* transient failure calls fail and ends the pass
RemoteAnswers ==
    /\ \E x \in inflight : \E outcome \in Outcomes :
         LET es == {e \in syncQueue : e.id = x.id}
             e == CHOOSE f \in es : TRUE
             goes == Continue(outcome)
         IN
         /\ inflight' = inflight \ {x}
         /\ reconciler' = IF goes THEN reconciler ELSE reconciler \ {x.by}
         /\ IF es = {}
            THEN /\ pass' = [pass EXCEPT
                               !.state = IF reconciler' = {}
                                         THEN "stopped" ELSE @]
                 /\ UNCHANGED <<syncQueue, collection, confirmed, remote>>
            ELSE /\ remote' = IF outcome = "accepted"
                              THEN ServerApply(remote, e) ELSE remote
                 /\ collection' = IF outcome = "accepted"
                                  THEN LocalApply(collection, e)
                                  ELSE collection
                 /\ syncQueue' =
                      CASE outcome = "accepted" ->
                               StoreDelete(syncQueue, e.id)
                        [] outcome = "permanent" ->
                               MarkFailed(syncQueue, e.id)
                        [] OTHER -> Fail(syncQueue, e.id)
                 /\ confirmed' = IF outcome = "accepted"
                                 THEN confirmed \cup {e.ord} ELSE confirmed
                 /\ pass' = [pass EXCEPT
                               !.clean = @ /\ outcome = "accepted",
                               !.failed = IF outcome = "permanent"
                                          THEN @ \cup {Tag(e)} ELSE @,
                               !.state = IF reconciler' = {}
                                         THEN "stopped" ELSE @]
    /\ UNCHANGED <<db, wishlist, qkey, apiCache, profile, enq, last, left>>
    /\ UNCHANGED <<mailbox, ntrig>>
    /\ UNCHANGED <<schema, dbver, hist, pgVars>>
    /\ UNCHANGED <<swVars, lcVars>>

\* no eligible entry is left: the drain returns to Idle
DrainEnds ==
    /\ \E p \in reconciler :
         /\ \A x \in inflight : x.by # p
         /\ Eligible(syncQueue, pass.deferred) = {}
         /\ reconciler' = reconciler \ {p}
         /\ pass' = [pass EXCEPT
                       !.state = IF reconciler' = {} THEN "drained" ELSE @]
    /\ UNCHANGED <<mailbox, inflight, ntrig>>
    /\ UNCHANGED <<schema, dbver, remote, hist, pgVars>>
    /\ UNCHANGED <<dbVars, swVars, lcVars>>

\* the page process is killed: what it held in memory is gone (this.db, the
\* drain and its in-flight marks), the stores are durable
Crash ==
    /\ pass.kills < MaxCrashes
    /\ db = "open"
    /\ db' = "null"
    /\ last' = Call("constructor", NoItem, NoItem, FALSE, 0, "none")
    /\ reconciler' = {}
    /\ inflight' = {}
    /\ mailbox' = [p \in Pages |-> 0]
    /\ pass' = [pass EXCEPT
                  !.state = "killed", !.clean = FALSE, !.kills = @ + 1,
                  !.cut = {Tag(e) : e \in {f \in syncQueue :
                                             \E x \in inflight : x.id = f.id}}]
    /\ UNCHANGED <<collection, wishlist, syncQueue, qkey, apiCache, profile,
                   confirmed, enq, left>>
    /\ UNCHANGED <<ntrig, schema, dbver, remote, hist, pgVars>>
    /\ UNCHANGED <<swVars, lcVars>>

NextDrain ==
    \/ addToSyncQueue
    \/ SyncEvent
    \/ PageReceives
    \/ PageTrigger
    \/ Submit
    \/ RemoteAnswers
    \/ DrainEnds

\* the Reconciler against the page's mutations, the remote API and kills of
\* the page process
NextReconcile ==
    \/ init
    \/ Mutate
    \/ PageTrigger
    \/ Submit
    \/ RemoteAnswers
    \/ DrainEnds
    \/ Crash

-----------------------------------------------------------------------------
(* Specifications *)

InitAll == InitDB /\ left = MaxOps /\ InitSW /\ InitWorker /\ InitDrain
InitStore ==
    InitDB /\ left = MaxStoreOps /\ InitSW /\ InitWorker /\ InitDrain
InitQueue ==
    InitDB /\ left = MaxQueueOps /\ InitSW /\ InitWorker /\ InitDrain
\* the first version of the worker is activated and controls both pages, the
\* store is open
InitSync ==
    /\ db = "open"
    /\ schema = StoreNames
    /\ dbver = 1
    /\ collection = {}
    /\ wishlist = {}
    /\ syncQueue = {}
    /\ qkey = 1
    /\ apiCache = {}
    /\ profile = {}
    /\ confirmed = {}
    /\ enq = 0
    /\ last = Call("init", NoItem, NoItem, FALSE, 0, "resolved")
    /\ left = MaxDrainOps
    /\ InitSW
    /\ worker = [g \in Gens |-> IF g = 1 THEN "activated" ELSE "none"]
    /\ skipFlag = [g \in Gens |-> g = 1]
    /\ names = {CACHE_NAME(1)}
    /\ staticCache = [g \in Gens |->
                        IF g = 1 THEN AddAll(EmptyCache, 1) ELSE EmptyCache]
    /\ act = [g \in Gens |->
                IF g = 1 THEN Activation("claimed", {CACHE_NAME(1)}, {}, {})
                ELSE NoActivation]
    /\ controller = [p \in Pages |-> 1]
    /\ running = {}
    /\ served = NoServed
    /\ routed = NoRoute
    /\ lastMsg = NoMessage
    /\ lev = 0
    /\ InitDrain

\* the store is open and holds, synced, the one entity the server has; one
\* page is open
InitReconcile ==
    /\ db = "open"
    /\ schema = StoreNames
    /\ dbver = 1
    /\ collection = {[id |-> Srv(1), offlineId |-> None, synced |-> TRUE]}
    /\ wishlist = {}
    /\ syncQueue = {}
    /\ qkey = 1
    /\ apiCache = {}
    /\ profile = {}
    /\ confirmed = {}
    /\ enq = 0
    /\ last = Call("init", NoItem, NoItem, FALSE, 0, "resolved")
    /\ left = MaxMutations
    /\ InitSW
    /\ worker = [g \in Gens |-> IF g = 1 THEN "activated" ELSE "none"]
    /\ skipFlag = [g \in Gens |-> g = 1]
    /\ names = {CACHE_NAME(1)}
    /\ staticCache = [g \in Gens |->
                        IF g = 1 THEN AddAll(EmptyCache, 1) ELSE EmptyCache]
    /\ act = [g \in Gens |->
                IF g = 1 THEN Activation("claimed", {CACHE_NAME(1)}, {}, {})
                ELSE NoActivation]
    /\ controller = [p \in Pages |-> IF p = "p1" THEN 1 ELSE 0]
    /\ running = {}
    /\ served = NoServed
    /\ routed = NoRoute
    /\ lastMsg = NoMessage
    /\ lev = 0
    /\ InitDrain

\* a database of a lower version, as onupgradeneeded may find it: any subset
\* of the five stores, each empty or holding a record
InitUpgrade ==
    /\ db = "null"
    /\ dbver = 0
    /\ schema \in SUBSET StoreNames
    /\ collection \in
         IF "collection" \in schema
         THEN {{}, {[id |-> Srv(1), offlineId |-> None, synced |-> TRUE]}}
         ELSE {{}}
    /\ wishlist \in
         IF "wishlist" \in schema
         THEN {{}, {[id |-> Off(0, "a"), offlineId |-> Off(0, "a"),
                    synced |-> FALSE]}}
         ELSE {{}}
    /\ syncQueue = {}
    /\ qkey = 1
    /\ apiCache \in
         IF "apiCache" \in schema
         THEN {{}, {[key |-> "/api/collection", timestamp |-> 0]}}
         ELSE {{}}
    /\ profile \in
         IF "profile" \in schema THEN {{}, {[id |-> "current"]}} ELSE {{}}
    /\ confirmed = {}
    /\ enq = 0
    /\ last = NoOp
    /\ left = MaxOps
    /\ InitSW
    /\ InitWorker
    /\ InitDrain

\* opening the database, and the stores that hold no records of entities
NextUpgrade ==
    \/ init
    \/ Restart
    \/ saveProfile
    \/ cacheAPIResponse
    \/ clearAll

\* every method of OfflineDB, in any order
SpecDB == InitAll /\ [][NextDB]_vars
\* the record stores
SpecStore == InitStore /\ [][NextStore]_vars
\* the sync queue
SpecQueue == InitQueue /\ [][NextQueue]_vars
\* the service worker; OfflineDB idle
SpecSW == InitAll /\ [][NextSW]_vars
\* the versions of the service worker, its fetch and message handlers
SpecLife == InitAll /\ [][NextLife]_vars
\* background sync and the drain of the queue
SpecSync == InitSync /\ [][NextDrain]_vars
\* the schema upgrade
SpecUpgrade == InitUpgrade /\ [][NextUpgrade]_vars
\* the Reconciler
SpecReconcile == InitReconcile /\ [][NextReconcile]_vars
\* clearAll as a transaction
SpecClear == InitAll /\ [][NextClear]_vars
\* Map3D
SpecMap == InitAll /\ [][NextMap]_vars
\* a page is closed: it is no client of the worker any more, the messages it
\* has not handled and the drain it was running are gone
PageCloses ==
    /\ \E p \in OpenPages :
         /\ controller' = [controller EXCEPT ![p] = 0]
         /\ mailbox' = [mailbox EXCEPT ![p] = 0]
         /\ reconciler' = reconciler \ {p}
         /\ inflight' = {x \in inflight : x.by # p}
         /\ pass' = IF p \in reconciler
                    THEN [pass EXCEPT !.state = "killed", !.clean = FALSE]
                    ELSE pass
    /\ UNCHANGED <<worker, skipFlag, names, staticCache, act, running, served,
                   routed, lastMsg, lev>>
    /\ UNCHANGED <<ntrig, schema, dbver, remote, hist, pgVars>>
    /\ UNCHANGED <<dbVars, swVars>>

\* lines 257-276: the sync event with the tag 'sync-pending-operations',
\* fired while the queue holds pending entries
PendingSync ==
    /\ \E e \in syncQueue : e.status = "pending"
    /\ SyncEvent
    /\ mailbox' = Broadcast(mailbox, Clients)

\* a page that is open enqueues an operation
PageEnqueues == OpenPages # {} /\ addToSyncQueue

\* the background signal while pages are closed one after the other
NextBackground ==
    \/ PageEnqueues
    \/ PendingSync
    \/ PageCloses
    \/ PageReceives
    \/ Submit
    \/ RemoteAnswers
    \/ DrainEnds

\* a page that stays open handles the messages posted to it
SpecBackground ==
    InitSync /\ [][NextBackground]_vars /\ WF_vars(PageReceives)

\* the fetch and message handlers of an activated version whose static cache
\* holds the precached assets
SpecCaches == InitSync /\ [][NextCaches]_vars

-----------------------------------------------------------------------------
(* Claims about OfflineDB *)

Records == collection \cup wishlist
Saves == {"saveCollectionItem", "saveWishlistItem"}
\* the store the last save wrote to
Written == IF last.op = "saveCollectionItem" THEN collection ELSE wishlist
\* the item of the last save had no server id
NoServerId(item) == item.id = None \/ item.id.k = "offline_"

\* C1 (as stated): in every reachable state a record with synced = false
\* exists if and only if a queue entry targeting it exists; saving a record
\* and enqueuing its mutation take effect together
C1_UnsyncedIffQueued ==
    /\ \A x \in Records : ~x.synced => \E e \in syncQueue : e.target = x.id
    /\ \A e \in syncQueue : \E x \in Records : x.id = e.target /\ ~x.synced

\* C2 (as stated): every record a save stores is tagged synced = false, a
\* record that carries a server id included
C2_EveryWriteUnsynced ==
    (last.op \in Saves /\ last.result = "stored") =>
        \A x \in Written : x.id = last.rec.id => ~x.synced

\* C2 (amended): a save of a record without server id stores it with
\* synced = false whatever flag the caller gave; a save of a record with a
\* server id stores the caller's synced flag unchanged
C2_NewWriteUnsynced ==
    (last.op \in Saves /\ last.result = "stored") =>
        \E x \in Written :
            /\ x.id = last.rec.id
            /\ IF NoServerId(last.item)
               THEN ~x.synced
               ELSE x.id = last.item.id /\ x.synced = last.item.synced

\* C2 witness: a record without id, given with synced = true, stored unsynced
C2_Witness ==
    /\ last.op = "saveWishlistItem"
    /\ last.result = "stored"
    /\ last.item.id = None
    /\ last.item.synced
    /\ \E x \in wishlist : x.id = last.rec.id /\ ~x.synced

\* C3 (as stated): a save of a record without server id stores it with
\* synced = false, under its own offlineId if it has one and under a
\* generated one if not
C3_NewRecordStored ==
    (last.op \in Saves /\ last.result # "TypeError" /\ NoServerId(last.item)) =>
        \E x \in Written :
            /\ ~x.synced
            /\ x.id = x.offlineId
            /\ x.offlineId \in OfflineIds
            /\ last.item.offlineId # None => x.offlineId = last.item.offlineId

\* C3 (amended): the same, unless a record under another key already holds
\* that offlineId: then the unique index rejects the put and the store keeps
\* no record under that key
C3_NewRecordStoredUnlessRejected ==
    (last.op \in Saves /\ last.result # "TypeError" /\ NoServerId(last.item)) =>
        IF last.result = "stored"
        THEN \E x \in Written :
                /\ ~x.synced
                /\ x.id = x.offlineId
                /\ x.offlineId \in OfflineIds
                /\ last.item.offlineId # None =>
                       x.offlineId = last.item.offlineId
                /\ last.item.offlineId = None => x.id = last.rec.id
        ELSE /\ last.result = "ConstraintError"
             /\ \A x \in Written : x.id # last.rec.id
             /\ \E x \in Written : x.offlineId = last.rec.offlineId

\* C3 witness: an item with an offline_ id and another offlineId is stored
\* under the offlineId it carried
C3_Witness ==
    /\ last.op = "saveCollectionItem"
    /\ last.result = "stored"
    /\ last.item.id = Off(1, "a")
    /\ last.item.offlineId = Off(0, "a")
    /\ \E x \in collection : x.id = Off(0, "a") /\ x.offlineId = Off(0, "a")

\* no two records of a store share a key or a localId
OnePerLocalId(store) ==
    \A x, y \in store :
        (x.id = y.id \/ (x.offlineId # None /\ x.offlineId = y.offlineId))
            => x = y

\* C4 (as stated): one record per localId, and a save of a record whose
\* localId is already stored replaces that record
C4_PutUpsertsByLocalId ==
    /\ OnePerLocalId(collection)
    /\ OnePerLocalId(wishlist)
    /\ (last.op \in Saves /\ last.had) => last.rec \in Written

\* C4 (amended): one record per localId; a save of a record whose localId is
\* already stored replaces that record when it is stored under the same key
\* and is rejected by the unique index when it is stored under another key
C4_OnePerLocalId ==
    /\ OnePerLocalId(collection)
    /\ OnePerLocalId(wishlist)
    /\ (last.op \in Saves /\ last.had) =>
          \E x \in Written :
              /\ x.offlineId = last.rec.offlineId
              /\ IF x.id = last.rec.id
                 THEN x = last.rec /\ last.result = "stored"
                 ELSE last.result = "ConstraintError"

\* C4 witness: a save that replaced the record of its localId, with another
\* record in the store
C4_Witness ==
    /\ last.op = "saveCollectionItem"
    /\ last.had
    /\ last.result = "stored"
    /\ last.rec \in collection
    /\ Cardinality(collection) = 2

\* C5 (as stated): an entry leaves the queue only once its remote acceptance
\* is confirmed
C5_RemovedOnlyWhenConfirmed ==
    [][\A e \in syncQueue : e \notin syncQueue' => e.ord \in confirmed]_vars

\* C5 (amended): an entry leaves the queue only by removeFromSyncQueue called
\* with its id, by clearSyncQueue or by clearAll, confirmed or not
C5_RemovedOnlyByQueueCalls ==
    [][\A e \in syncQueue : e \notin syncQueue' =>
          \/ last'.op = "removeFromSyncQueue" /\ last'.key = e.id
          \/ last'.op \in {"clearSyncQueue", "clearAll"}]_vars

\* C5 witness: clearSyncQueue has emptied a queue whose entry was never
\* confirmed
C5_Witness ==
    /\ last.op = "clearSyncQueue"
    /\ last.result = "cleared"
    /\ enq > 0
    /\ confirmed = {}
    /\ syncQueue = {}

\* the sequence q is all of the queue, each entry once
AllEntries(q) ==
    /\ Len(q) = Cardinality(syncQueue)
    /\ {q[i] : i \in 1..Len(q)} = syncQueue

C21_UpgradeIdempotent ==
    [][/\ (db = "null" /\ db' = "open") =>
            /\ \A name \in schema : Database'[name] = Database[name]
            /\ \A name \in StoreNames \ schema :
                   Database'[name] = Store(TRUE, {})
            /\ Upgrade(Database') = Database'
       /\ db' = "open" => (schema' = StoreNames /\ dbver' = 1)
       /\ (db' = "null" /\ db = "null") => schema' = schema]_vars

\* C21 witness: init has upgraded a database that held some of the stores,
\* and a store that existed still holds its record
C21_Witness ==
    /\ db = "open"
    /\ last.op = "init"
    /\ last.result = "resolved"
    /\ last.had
    /\ schema = StoreNames
    /\ profile # {}
    /\ collection = {}

-----------------------------------------------------------------------------
(* Claims about networkFirstStrategy *)

\* the structured offline marker: offline: true with status 503
IsOfflineMarker(resp) == resp.offline /\ resp.status = 503
\* what the runtime cache may hold for a key: an ok response the network gave
\* for it, or a payload the page asked to cache for it
Cacheable(key) == okSeen[key] \cup pageSeen[key]

\* C8 (as stated): when the network attempt fails and the key was fetched
\* before, the response is the cached payload of that key
C8_FetchedBeforeServedFromCache ==
    (lastResp.via = "catch" /\ lastResp.fetched) =>
        /\ lastResp.cached # NoResponse
        /\ lastResp.resp = lastResp.cached
        /\ ~IsOfflineMarker(lastResp.resp)

\* C8 (amended): when the network attempt fails and the runtime cache holds
\* an entry for the key at the lookup, the response is that entry, an ok
\* response of the network or a page payload stored for exactly that key
C8_CachedEntryServed ==
    (lastResp.via = "catch" /\ lastResp.cached # NoResponse) =>
        /\ lastResp.resp = lastResp.cached
        /\ lastResp.resp \in Cacheable(lastResp.key)
        /\ ~IsOfflineMarker(lastResp.resp)

\* C8 witness: the fallback served the entry of its key while the cache held
\* another entry for the other key
C8_Witness ==
    /\ lastResp.via = "catch"
    /\ lastResp.cached # NoResponse
    /\ lastResp.resp = lastResp.cached
    /\ \E k \in RequestKeys :
          /\ k # lastResp.key
          /\ runtimeCache[k] \notin {NoResponse, lastResp.resp}

\* C9: a delivered response is the offline marker exactly when the network
\* attempt failed and the runtime cache had no entry for the key
C9_OfflineMarkerIff ==
    lastResp.via # "none" =>
        (IsOfflineMarker(lastResp.resp) <=>
            (lastResp.via = "catch" /\ lastResp.cached = NoResponse))

\* C9 witness: the offline marker answered a key whose earlier ok response
\* was not in the cache
C9_Witness ==
    /\ lastResp.via = "catch"
    /\ lastResp.cached = NoResponse
    /\ lastResp.fetched
    /\ lastResp.resp = OfflineResponse

\* C10 (as stated): a request that fails on the network returns the most
\* recent response the network gave for its key
C10_FallbackReturnsLatest ==
    (lastResp.via = "catch" /\ lastResp.latest # NoResponse) =>
        lastResp.resp = lastResp.latest

\* C10 (amended): a request that succeeds on the network gets the live
\* response, and an ok response starts a cache.put of it that nothing awaits;
\* the runtime cache entry of a key is always one of the ok responses the
\* network gave for it or a page payload, not always the latest; a failing
\* request gets that entry or the offline marker
C10_FallbackReturnsSomeOkResult ==
    [][/\ \A k \in RequestKeys :
            /\ runtimeCache'[k] \in {NoResponse} \cup okSeen'[k] \cup pageSeen'[k]
            /\ (lastNet'[k] # lastNet[k] /\ Ok(lastNet'[k])) =>
                   [key |-> k, resp |-> lastNet'[k]] \in puts'
       /\ lastResp'.via = "network" => lastResp'.resp = lastResp'.latest
       /\ lastResp'.via = "catch" =>
            lastResp'.resp \in {OfflineResponse} \cup okSeen'[lastResp'.key]
                                  \cup pageSeen'[lastResp'.key]
      ]_vars

\* C10 witness: the fallback served an ok response of the network that was no
\* longer the latest ok response for the key
C10_Witness ==
    /\ lastResp.via = "catch"
    /\ lastResp.resp \in okSeen[lastResp.key]
    /\ Ok(lastResp.latest)
    /\ lastResp.resp # lastResp.latest

-----------------------------------------------------------------------------
(* Claims about the service worker's cache-first strategy, its versions,   *)
(* its fetch and message handlers                                          *)

\* C11: a cache-first request whose cache lookup finds an entry resolves to
\* that entry, from the cache, having issued no network call
C11_CacheHitNoNetwork ==
    (served.strategy = "cacheFirst" /\ served.hit # NoResponse) =>
        /\ served.resp = served.hit
        /\ served.via = "cache"
        /\ served.calls = 0

\* C11 witness: an asset that an earlier request fetched and cached is served
\* from the cache
C11_Witness ==
    /\ served.strategy = "cacheFirst"
    /\ served.via = "cache"
    /\ served.resp = Response(200, FALSE, NetworkBytes)
    /\ served.calls = 0

\* C12 (as stated): a cache-first request with no cache entry whose fetch
\* fails resolves to a response, never to undefined, whatever the cache holds
C12_AlwaysDefinedResponse ==
    (served.strategy = "cacheFirst" /\ served.via = "catch") =>
        served.resp # NoResponse

\* the caches that are not one of the two of version g
NotOwn(g, cacheNames) ==
    {n \in cacheNames : n \notin {CACHE_NAME(g), RUNTIME_CACHE(g)}}

C14_DeleteThenClaim ==
    [][\A g \in Gens :
         (act[g].pc # "claimed" /\ act'[g].pc = "claimed") =>
            /\ act[g].pc = "deleting"
            /\ act[g].pending = {}
            /\ NotOwn(g, act[g].snapshot) \subseteq act[g].deleted]_vars

\* C14 witness: the second version has claimed the pages after deleting a
\* cache of the first
C14_Witness ==
    /\ act[2].pc = "claimed"
    /\ act[2].deleted # {}
    /\ \A p \in Pages : controller[p] = 2

\* C15: a version never waits with its skip waiting flag unset, every
\* controlled page is controlled by the active version, and so no two
\* versions control a page at the same time
C15_OneControllingVersion ==
    /\ \A g \in Gens : worker[g] = "installed" => skipFlag[g]
    /\ \A p \in Pages : controller[p] # 0 => controller[p] = ActiveGen
    /\ \A p, q \in Pages :
          (controller[p] # 0 /\ controller[q] # 0) =>
              controller[p] = controller[q]

\* C15 witness: the second version is activating and already controls the
\* pages the first version controlled, which never closed
C15_Witness ==
    /\ worker[1] = "redundant"
    /\ worker[2] = "activating"
    /\ act[1].pc = "claimed"
    /\ \A p \in Pages : controller[p] = 2

\* the requests the handler gives to cacheFirstStrategy
CacheFirstClass == {IconUrl, CdnUrl}

\* C16 (as stated): every request of a controlled page, whatever its method,
\* is answered by exactly one of the two strategies
C16_EveryRequestOneStrategy ==
    routed.request.method # "none" =>
        /\ routed.route \in {"cacheFirst", "networkFirst"}
        /\ routed.started = 1

\* C16 (amended): a GET request of a controlled page is answered by exactly
\* one strategy, cacheFirstStrategy for a same-origin asset or a listed
\* external resource and networkFirstStrategy otherwise; for a request of
\* another method the handler returns without answering
C16_EveryGetOneStrategy ==
    routed.request.method # "none" =>
        IF routed.request.method = "GET"
        THEN /\ routed.started = 1
             /\ routed.route =
                    IF routed.request.url \in CacheFirstClass
                    THEN "cacheFirst" ELSE "networkFirst"
        ELSE /\ routed.started = 0
             /\ routed.route = "none"

\* C16 witness: a POST request reached the handler and no strategy was started
C16_Witness ==
    /\ routed.request.method = "POST"
    /\ routed.route = "none"
    /\ routed.started = 0
    /\ running = {}

\* the step is the receipt of SKIP_WAITING by a waiting version g
SkipReceived(g) ==
    /\ lastMsg'.n # lastMsg.n
    /\ lastMsg'.type = "SKIP_WAITING"
    /\ lastMsg'.gen = g
    /\ worker[g] = "installed"

-----------------------------------------------------------------------------
(* Claims about the drain and about the errors of OfflineDB                *)

StoreCalls ==
    {"saveCollectionItem", "deleteCollectionItem", "saveWishlistItem",
     "deleteWishlistItem", "addToSyncQueue", "removeFromSyncQueue",
     "clearSyncQueue", "cacheAPIResponse", "saveProfile", "clearAll"}

\* C19 (as stated): a store operation called after init has failed to open
\* the database reports that the store is unavailable
C19_UnavailableAfterOpenFailure ==
    [][(last.op = "init" /\ last.result = "rejected"
            /\ last'.op \in StoreCalls) =>
         Reported(last') = "StorageUnavailable"]_vars

\* a call that failed
Failed(call) == call.result \in {"TypeError", "ConstraintError", "rejected"}

\* C20 (as stated): every failed operation is reported to the caller as one
\* of the defined error kinds
C20_FailuresReportedAsKinds ==
    Failed(last) => Reported(last) \in ErrorKinds

-----------------------------------------------------------------------------
(* Claims about the Reconciler *)

\* the drain has returned to Idle with the queue empty, every remote call of
\* the pass accepted
DrainedClean == pass.state = "drained" /\ pass.clean /\ syncQueue = {}

C23_LastWriterWins ==
    DrainedClean =>
        \A t \in Targets :
            (hist[t].updates > 0 /\ ~hist[t].deleted) =>
                /\ remote[t].present
                /\ remote[t].payload = hist[t].lastUpdate

\* C23 witness: two Updates of one entity drained, the server holds the
\* payload of the second
C23_Witness ==
    /\ DrainedClean
    /\ \E t \in Targets :
         /\ hist[t].updates >= 2
         /\ remote[t].payload = hist[t].lastUpdate

C26_CreateBeforeUpdate ==
    [][\A x \in inflight' \ inflight : \A e \in syncQueue :
          (e.id = x.id /\ e.type # "create") =>
              /\ ServerIdOf(collection, e.target) # None
              /\ \A c \in syncQueue :
                    (c.type = "create" /\ c.target = e.target) =>
                        c.ord > e.ord
      ]_vars

\* C26 witness: the Update of an entity created offline is in flight, its
\* Create applied
C26_Witness ==
    \E x \in inflight, e \in syncQueue :
        /\ e.id = x.id
        /\ e.type = "update"
        /\ hist[e.target].created
        /\ remote[e.target].present

-----------------------------------------------------------------------------
(* Claims about record identity *)

\* C29 (as stated): the localId of a stored record never changes, the server
\* id of a stored localId is never replaced by another, and the store holds
\* one record per localId
C29_IdentityStable ==
    [][/\ \A x \in collection, y \in collection' :
             x.id = y.id => y.offlineId = x.offlineId
       /\ \A x \in collection, y \in collection' :
             (/\ x.offlineId # None
              /\ x.offlineId = y.offlineId
              /\ x.id.k = "number") => y.id = x.id
       /\ OnePerLocalId(collection')
      ]_vars

-----------------------------------------------------------------------------
(* Claims about the classification of requests *)

\* the page shell: same origin, pathname '/' or '/index.html'
IsShell(url) == url.origin = "self" /\ url.pathname \in {"/", "/index.html"}
\* same origin, or one of the listed external resources
IsAsset(url) == url.origin = "self" \/ url.origin \in EXTERNAL_RESOURCES

\* C30: every GET request gets one of the two strategies, by fixed
\* priority: a path beginning with /api/ network-first, also on the same
\* origin; the same-origin page shell network-first; any other same-origin
\* request or listed external resource cache-first; the rest network-first
C30_ClassificationByPriority ==
    routed.request.method = "GET" =>
        LET url == routed.request.url IN
        /\ routed.route \in {"cacheFirst", "networkFirst"}
        /\ StartsWithApi(url.pathname) => routed.route = "networkFirst"
        /\ IsShell(url) => routed.route = "networkFirst"
        /\ (/\ ~StartsWithApi(url.pathname)
            /\ ~IsShell(url)
            /\ IsAsset(url)) => routed.route = "cacheFirst"
        /\ ~IsAsset(url) => routed.route = "networkFirst"

\* C30 witness: a same-origin GET of an /api/ path was routed network-first
C30_Witness ==
    /\ routed.request.method = "GET"
    /\ routed.request.url.origin = "self"
    /\ StartsWithApi(routed.request.url.pathname)
    /\ routed.route = "networkFirst"
    /\ routed.started = 1

-----------------------------------------------------------------------------
(* Claims about the frame of the OfflineDB methods *)

\* the step is a call of addToSyncQueue
AddCalled ==
    /\ left' # left
    /\ confirmed' = confirmed
    /\ last'.op = "addToSyncQueue"

\* C36: addToSyncQueue keeps every entry of the queue as it was and leaves
\* the other stores unchanged; a call that is stored adds one entry, a call
\* whose id is the key of a stored entry fails and adds none
C36_AddNeverOverwrites ==
    [][AddCalled =>
          /\ syncQueue \subseteq syncQueue'
          /\ collection' = collection
          /\ wishlist' = wishlist
          /\ apiCache' = apiCache
          /\ profile' = profile
          /\ IF last'.result = "stored"
             THEN /\ Cardinality(syncQueue') = Cardinality(syncQueue) + 1
                  /\ \E e \in syncQueue' \ syncQueue : e.id = last'.key
             ELSE syncQueue' = syncQueue
      ]_vars

\* C36 witness: an operation carrying the id of a stored entry was handed to
\* addToSyncQueue, the stored entry is still the first one enqueued
C36_Witness ==
    /\ last.op = "addToSyncQueue"
    /\ last.result = "ConstraintError"
    /\ \E e \in syncQueue : e.id = last.key /\ e.ord = 1
    /\ Cardinality(syncQueue) = 1

-----------------------------------------------------------------------------
(* Claims about clearAll and about Map3D *)

\* the five stores are empty
FiveEmpty == Stored = {}

\* C37 (as stated): once the promise clearAll returned has resolved the five
\* stores are empty, and a step of its transaction that changes a store
\* leaves all five empty
C37_ClearAllAtomic ==
    [][/\ (last'.op = "clearAll" /\ Reported(last') = "resolved") =>
             FiveEmpty'
       /\ (tx = "active" /\ Stored' # Stored) => FiveEmpty'
      ]_vars

\* C39 (as stated): one Map3D instance constructs at most one globe
C39_AtMostOneGlobe == map3d.built <= 1

-----------------------------------------------------------------------------
(* Claims about the install of a version and about the caches *)

\* C35: a version's skip waiting flag is first set by the step that ends its
\* install, and that step has stored every asset of STATIC_ASSETS in the
\* version's static cache (when the cache is still in Cache Storage); an
\* install whose addAll fails stores nothing, sets no flag and makes the
\* version redundant, and a redundant version stays redundant
C35_InstallAllOrNothing ==
    [][\A g \in Gens :
          /\ (~skipFlag[g] /\ skipFlag'[g]) =>
                \/ worker[g] \in {"installed", "activating", "activated"}
                \/ /\ worker[g] = "installing"
                   /\ worker'[g] = "installed"
                   /\ CACHE_NAME(g) \in names =>
                         \A u \in STATIC_ASSETS :
                             CacheHit(staticCache'[g][u])
          /\ (worker[g] = "installing" /\ worker'[g] # "installing") =>
                \/ worker'[g] = "installed" /\ skipFlag'[g]
                \/ /\ worker'[g] = "redundant"
                   /\ ~skipFlag'[g]
                   /\ staticCache' = staticCache
          /\ (worker'[g] \in {"activating", "activated"}) =>
                worker[g] \in {"installed", "activating", "activated"}
          /\ worker[g] = "redundant" => worker'[g] = "redundant"
      ]_vars

\* C35 witness: the install of version 1 failed and it never activated;
\* version 2 is installed with every asset stored and its flag set
C35_Witness ==
    /\ worker[1] = "redundant"
    /\ ~skipFlag[1]
    /\ act[1] = NoActivation
    /\ worker[2] = "installed"
    /\ skipFlag[2]
    /\ \A u \in STATIC_ASSETS : CacheHit(staticCache[2][u])

\* the step in which cacheFirstStrategy returns the network response of
\* invocation h
CacheFirstDelivers(h) ==
    /\ h \in running
    /\ h.strategy = "cacheFirst"
    /\ h.pc = "fetch"
    /\ \A k \in running' : k.id # h.id

\* the step in which cacheFirstStrategy looks up the request of invocation h
CacheFirstLooksUp(h) ==
    /\ h \in running
    /\ h.strategy = "cacheFirst"
    /\ h.pc = "start"
    /\ h \notin running'

NetworkFirstFallsBack(h) ==
    /\ h \in handlers
    /\ h.pc = "catch"
    /\ h \notin handlers'

\* the step in which networkFirstStrategy returns the network response of
\* handler h
NetworkFirstDelivers(h) ==
    /\ h \in handlers
    /\ h.pc = "fetch"
    /\ \A k \in handlers' : k.id # h.id

\* the step in which the catch branch of cacheFirstStrategy answers
CacheFirstFallsBack(h) ==
    /\ h \in running
    /\ h.strategy = "cacheFirst"
    /\ h.pc = "catch"
    /\ h \notin running'

\* C33: a step of networkFirstStrategy or of a put it started leaves the
\* static cache as it is, and its catch branch answers with the runtime
\* cache's entry of the request, or the offline response when the runtime
\* cache has none, whatever the static cache holds; a step of
\* cacheFirstStrategy leaves the runtime cache and the puts on it as they
\* are, and answers a lookup or its catch branch from the static cache
C33_DisjointCaches ==
    [][/\ (handlers' # handlers \/ puts' # puts
             \/ runtimeCache' # runtimeCache) =>
            (staticCache' = staticCache /\ served' = served)
       /\ (running' # running \/ staticCache' # staticCache) =>
            (runtimeCache' = runtimeCache /\ puts' = puts
               /\ lastResp' = lastResp)
       /\ \A h \in handlers :
            NetworkFirstFallsBack(h) =>
               /\ lastResp'.via = "catch"
               /\ lastResp'.resp =
                    IF runtimeCache[h.key] # NoResponse
                    THEN runtimeCache[h.key] ELSE OfflineResponse
       /\ \A h \in running :
            /\ (CacheFirstLooksUp(h) /\ served' # served) =>
                  served'.resp = staticCache[h.gen][h.url]
            /\ CacheFirstFallsBack(h) =>
                  served'.resp = staticCache[h.gen][ShellUrl]
      ]_vars

\* C33 witness: the catch branch of networkFirstStrategy answered a request
\* for '/index.html' with the offline response while '/index.html' was in
\* the static cache, and cacheFirstStrategy has served an entry of the
\* static cache
C33_Witness ==
    /\ lastResp.key = "/index.html"
    /\ lastResp.via = "catch"
    /\ lastResp.resp = OfflineResponse
    /\ CacheHit(staticCache[1][ShellUrl])
    /\ served.via \in {"cache", "catch"}
    /\ served.resp = staticCache[1][ShellUrl] \/ served.resp = staticCache[1][IconUrl]

\* C34: a strategy that returns a network response that is not ok leaves
\* both caches and the puts as they are, and no cache entry and no put holds
\* a response that is not ok
C34_NonOkNeverStored ==
    [][/\ \A h \in handlers :
            (NetworkFirstDelivers(h) /\ ~Ok(lastResp'.resp)) =>
               /\ lastResp'.via = "network"
               /\ lastResp'.resp \in NetworkResponses(h.id)
               /\ puts' = puts
               /\ runtimeCache' = runtimeCache
               /\ staticCache' = staticCache
       /\ \A h \in running :
            (CacheFirstDelivers(h) /\ ~Ok(served'.resp)) =>
               /\ served'.via = "network"
               /\ served'.resp \in NetworkResponses(NetworkBytes)
               /\ puts' = puts
               /\ runtimeCache' = runtimeCache
               /\ staticCache' = staticCache
       /\ \A p \in puts' : Ok(p.resp)
       /\ \A k \in RequestKeys :
            runtimeCache'[k] = NoResponse \/ Ok(runtimeCache'[k])
       /\ \A g \in Gens : \A u \in Urls :
            staticCache'[g][u] = NoResponse \/ Ok(staticCache'[g][u])
      ]_vars

\* C34 witness: each strategy has returned a network response that is not ok
C34_Witness ==
    /\ served.strategy = "cacheFirst"
    /\ served.via = "network"
    /\ ~Ok(served.resp)
    /\ lastResp.via = "network"
    /\ ~Ok(lastResp.resp)

-----------------------------------------------------------------------------
(* Claims about the background signal *)

\* C32 (as stated): once a sync event tagged 'sync-pending-operations' has
\* fired while the queue held pending entries, a drain eventually begins
C32_SignalLeadsToDrain == (ntrig > 0) ~> (pass.state # "idle")

====
